---- MODULE Spec2Model ----
(***************************************************************************)
(* The WASM plugin sandbox host of aeris (src/src/adapters/wasm): the      *)
(* capability validator (host.rs), the host function surface               *)
(* (host_functions.rs), the memory bridge (memory.rs) and the per-call     *)
(* execution model (adapter.rs).                                           *)
(*                                                                         *)
(* Strings are sequences of one-character strings, so that substring,      *)
(* prefix and path-component operations are computed as the code computes  *)
(* them.                                                                   *)
(***************************************************************************)
EXTENDS Integers, Sequences, FiniteSets, TLC

VARIABLES
    home,       \* the HOME environment variable: NoHome or a path string
    onPath,     \* the command names the executable search path resolves
    vreq,       \* the request put to the capability validator alone
    vres,       \* its decision on vreq (Pending before it is taken)
    adapters,   \* the loaded WasmAdapters: host_state and the module's exports
    fsys,       \* the file system
    workers,    \* the blocking worker threads: the call each one runs
    hostcall    \* per worker, the last host function invocation (history)

vars == <<home, onPath, vreq, vres, adapters, fsys, workers, hostcall>>

-----------------------------------------------------------------------------
(* Bounds of the model *)

\* longest free tail appended to a path stem when enumerating requested paths
MaxTail == 3
\* longest filesystem permission list / exec allowlist enumerated
MaxList == 2
\* guest steps one call's compute budget pays for
FuelSteps == 1

-----------------------------------------------------------------------------
(* Strings *)

Sep == "/"

\* every sequence over alphabet A of length at most n
RECURSIVE StringsUpTo(_, _)
StringsUpTo(A, n) ==
    IF n = 0 THEN {<<>>}
    ELSE LET shorter == StringsUpTo(A, n - 1)
         IN shorter \cup {Append(s, c) : s \in {t \in shorter : Len(t) = n - 1}, c \in A}

\* str::starts_with
StrStartsWith(s, pre) ==
    /\ Len(pre) <= Len(s)
    /\ SubSeq(s, 1, Len(pre)) = pre

\* str::contains
StrContains(s, pat) ==
    \E i \in 1..(Len(s) - Len(pat) + 1) : SubSeq(s, i, i + Len(pat) - 1) = pat

\* str::strip_prefix: the rest after pre, or NoStr
NoStr == <<"(none)">>
StripPrefix(s, pre) ==
    IF StrStartsWith(s, pre) THEN SubSeq(s, Len(pre) + 1, Len(s)) ELSE NoStr

-----------------------------------------------------------------------------
(* std::path on Unix, as used by host.rs *)

DotDot == <<".", ".">>
Dot == <<".">>
RootDir == <<Sep>>

\* the raw segments between separators, empty ones included
RECURSIVE RawSegs(_)
RawSegs(p) ==
    IF \A i \in 1..Len(p) : p[i] # Sep THEN <<p>>
    ELSE LET k == CHOOSE i \in 1..Len(p) : p[i] = Sep /\ \A j \in 1..(i - 1) : p[j] # Sep
         IN <<SubSeq(p, 1, k - 1)>> \o RawSegs(SubSeq(p, k + 1, Len(p)))

\* Path::is_absolute (has_root on Unix)
IsAbsolute(p) == Len(p) > 0 /\ p[1] = Sep

\* Path::components: RootDir for a leading separator, CurDir only as the
\* first segment of a relative path, empty and other "." segments dropped,
\* ".." kept as ParentDir.
Components(p) ==
    LET segs == RawSegs(p)
        lead == IF IsAbsolute(p) THEN <<RootDir>>
                ELSE IF Head(segs) = Dot THEN <<Dot>> ELSE <<>>
        rest == SelectSeq(segs, LAMBDA s : s # <<>> /\ s # Dot)
    IN lead \o rest

\* Path::starts_with: whole components, never a partial name
StartsWith(p, base) ==
    LET cp == Components(p)
        cb == Components(base)
    IN /\ Len(cb) <= Len(cp)
       /\ SubSeq(cp, 1, Len(cb)) = cb

\* Path::join / PathBuf::push
PathJoin(base, p) ==
    IF IsAbsolute(p) THEN p
    ELSE IF base = <<>> \/ base[Len(base)] = Sep THEN base \o p
    ELSE base \o <<Sep>> \o p

\* Path::file_name: the last component if it is a normal one, else NoStr
FileName(p) ==
    LET c == Components(p)
    IN IF c = <<>> THEN NoStr
       ELSE LET last == c[Len(c)]
            IN IF last \in {RootDir, Dot, DotDot} THEN NoStr ELSE last

-----------------------------------------------------------------------------
(* host.rs: HostState and the capability validator *)

NoHome == <<"(unset)">>

PluginDataRel ==
    <<".", "l", "o", "c", "a", "l", "/", "s", "h", "a", "r", "e", "/",
      "a", "e", "r", "i", "s", "/", "p", "l", "u", "g", "i", "n", "-",
      "d", "a", "t", "a">>
PluginDataTmp ==
    <<"/", "t", "m", "p", "/", "a", "e", "r", "i", "s", "/",
      "p", "l", "u", "g", "i", "n", "-", "d", "a", "t", "a">>

\* home_dir()
home_dir(h) == h

\* data_dir_for(adapter_id): the fixed plugin-data root, joined with the id
data_dir_for(h, adapter_id) ==
    LET base == IF home_dir(h) # NoHome THEN PathJoin(home_dir(h), PluginDataRel)
                ELSE PluginDataTmp
    IN PathJoin(base, adapter_id)

\* HostState::new
HostStateNew(h, adapter_id, permissions) ==
    [adapter_id |-> adapter_id, permissions |-> permissions,
     data_dir |-> data_dir_for(h, adapter_id)]

Ok(v) == [ok |-> TRUE, val |-> v]
Err(kind, id) == [ok |-> FALSE, err |-> kind, plugin |-> id]

\* Faulty validators, which the properties of validate_path and
\* validate_command must tell from the real one: a check for ".." that
\* only looks at the start of the path, a data directory that is never
\* recognised, permitted prefixes taken literally, and a command compared
\* whole with the allowlist
ContainsDotDotLeading(path) == StrStartsWith(path, DotDot)
InDataDirNever(hs, resolved) == FALSE
ExpandAllowedLiteral(h, allowed) == allowed
BasenameWhole(cmd) == cmd

\* path_str.contains("..")
ContainsDotDot(path) == StrContains(path, DotDot)

\* the resolved path: the request if absolute, else joined to the data dir
Resolve(hs, path) == IF IsAbsolute(path) THEN path ELSE PathJoin(hs.data_dir, path)

\* "always allow access within the plugin's data directory"
InDataDir(hs, resolved) == StartsWith(resolved, hs.data_dir)

TildeSlash == <<"~", Sep>>

\* one entry of permissions.filesystem as a path: a leading "~/" joined to
\* the home directory, NoStr when there is no home directory
ExpandAllowed(h, allowed) ==
    LET stripped == StripPrefix(allowed, TildeSlash)
    IN IF stripped # NoStr
       THEN IF home_dir(h) # NoHome THEN PathJoin(home_dir(h), stripped) ELSE NoStr
       ELSE allowed

\* the loop over permissions.filesystem: the first matching entry returns
RECURSIVE CheckAllowed(_, _, _, _)
CheckAllowed(h, hs, list, resolved) ==
    IF list = <<>> THEN Err("not_allowed", hs.adapter_id)
    ELSE LET allowed_path == ExpandAllowed(h, Head(list))
         IN IF allowed_path = NoStr THEN CheckAllowed(h, hs, Tail(list), resolved)
            ELSE IF StartsWith(resolved, allowed_path) THEN Ok(resolved)
            ELSE CheckAllowed(h, hs, Tail(list), resolved)

\* HostState::validate_path
validate_path(h, hs, path) ==
    IF ContainsDotDot(path) THEN Err("traversal", hs.adapter_id)
    ELSE LET resolved == Resolve(hs, path)
         IN IF InDataDir(hs, resolved) THEN Ok(resolved)
            ELSE CheckAllowed(h, hs, hs.permissions.filesystem, resolved)

\* the basename validate_command looks up: file_name, or the whole string
Basename(cmd) == IF FileName(cmd) # NoStr THEN FileName(cmd) ELSE cmd

BinDir == <<"/", "b", "i", "n">>

\* which::which: the absolute path of a name the search path resolves
Which(names, name) ==
    IF name \in names THEN Ok(PathJoin(BinDir, name)) ELSE Err("not_found", name)

\* A faulty validate_command, which the program host_exec spawns must tell
\* from the real one: the basename is checked, the command returned as given
validate_command_as_given(names, hs, cmd) ==
    LET basename == Basename(cmd)
    IN IF \A i \in 1..Len(hs.permissions.exec_commands) :
             hs.permissions.exec_commands[i] # basename
       THEN Err("not_in_allowlist", hs.adapter_id)
       ELSE IF Which(names, basename).ok THEN Ok(cmd)
       ELSE Which(names, basename)

\* HostState::validate_command
validate_command(names, hs, cmd) ==
    LET basename == Basename(cmd)
    IN IF \A i \in 1..Len(hs.permissions.exec_commands) :
             hs.permissions.exec_commands[i] # basename
       THEN Err("not_in_allowlist", hs.adapter_id)
       ELSE Which(names, basename)

\* HostState::has_network_permission
has_network_permission(hs) == hs.permissions.network

-----------------------------------------------------------------------------
(* memory.rs: the memory bridge.  Guest linear memory is a sequence of     *)
(* bytes; a byte is a one-byte character, Nul, a byte of the two-byte      *)
(* character, or BadByte (which occurs in no valid UTF-8).                 *)

\* size of a module's linear memory, in bytes
MemSize == 64
\* where the modelled guests keep a second buffer
DataOff == 48

Nul == "00"
BadByte == "FF"

\* a freshly instantiated module's memory
InitialMemory == [i \in 1..MemSize |-> Nul]

\* Integers wider than the model checker's: a u32 is its two 16-bit limbs
\* <<high, low>>, an i64 its four limbs, high first, in two's complement.
U32(n) == <<n \div 65536, n % 65536>>
FromU32(w) == w[1] * 65536 + w[2]

\* an i64 value, as its four 16-bit limbs from the top
I64(limbs) == [i64 |-> limbs]

RECURSIVE BitOr(_, _)
BitOr(a, b) ==
    IF a = 0 THEN b
    ELSE IF b = 0 THEN a
    ELSE (IF a % 2 = 1 \/ b % 2 = 1 THEN 1 ELSE 0) + 2 * BitOr(a \div 2, b \div 2)

RECURSIVE BitAnd(_, _)
BitAnd(a, b) ==
    IF a = 0 \/ b = 0 THEN 0
    ELSE (IF a % 2 = 1 /\ b % 2 = 1 THEN 1 ELSE 0) + 2 * BitAnd(a \div 2, b \div 2)

\* A faulty encoding, which the round trip of the fat pointer must tell from
\* the real one: the length is sign-extended to 64 bits, not zero-extended
encode_fat_ptr_signed(w_ptr, w_len) ==
    LET sign == IF w_len[1] >= 32768 THEN 65535 ELSE 0
        shifted == <<w_ptr[1], w_ptr[2], 0, 0>>
        len64 == <<sign, sign, w_len[1], w_len[2]>>
    IN I64([i \in 1..4 |-> BitOr(shifted[i], len64[i])])

\* the fat pointer the host functions return: ((w_ptr as i64) << 32) | (w_len as i64)
encode_fat_ptr(w_ptr, w_len) ==
    LET ptr64 == <<0, 0, w_ptr[1], w_ptr[2]>>
        shifted == <<ptr64[3], ptr64[4], 0, 0>>
        len64 == <<0, 0, w_len[1], w_len[2]>>
    IN I64([i \in 1..4 |-> BitOr(shifted[i], len64[i])])

FatPtr(ptr, len) == encode_fat_ptr(U32(ptr), U32(len))
NullFat == FatPtr(0, 0)

\* decode_fat_ptr: (val >> 32) as u32, with the arithmetic shift of an i64,
\* and (val & 0xFFFF_FFFF) as u32
decode_fat_ptr(val) ==
    LET sign == IF val.i64[1] >= 32768 THEN 65535 ELSE 0
        shifted == <<sign, sign, val.i64[1], val.i64[2]>>
        mask == <<0, 0, 65535, 65535>>
        masked == [i \in 1..4 |-> BitAnd(val.i64[i], mask[i])]
    IN << <<shifted[3], shifted[4]>>, <<masked[3], masked[4]>> >>

\* UTF-8: every character of the model is one byte, but TwoByteChar, which
\* is the bytes LeadByte, ContByte
TwoByteChar == "U+00E9"
LeadByte == "C3"
ContByte == "A9"

\* str::as_bytes
RECURSIVE as_bytes(_)
as_bytes(s) ==
    IF s = <<>> THEN <<>>
    ELSE (IF Head(s) = TwoByteChar THEN <<LeadByte, ContByte>> ELSE <<Head(s)>>)
         \o as_bytes(Tail(s))

\* String::from_utf8: no byte that occurs in no UTF-8 text, a lead byte
\* with its continuation byte, no continuation byte without its lead byte;
\* then one character for every byte that is no continuation byte
from_utf8(bytes) ==
    LET n == Len(bytes)
        valid == \A i \in 1..n :
                    /\ bytes[i] # BadByte
                    /\ bytes[i] = LeadByte => (i < n /\ bytes[i + 1] = ContByte)
                    /\ bytes[i] = ContByte => (i > 1 /\ bytes[i - 1] = LeadByte)
        starts == SelectSeq([i \in 1..n |-> i], LAMBDA i : bytes[i] # ContByte)
    IN IF ~valid THEN Err("utf8", <<>>)
       ELSE Ok([j \in 1..Len(starts) |->
                   IF bytes[starts[j]] = LeadByte THEN TwoByteChar ELSE bytes[starts[j]]])

\* i32 as u32: the two's complement of a negative argument
as_u32(i) ==
    IF i >= 0 THEN U32(i)
    ELSE <<65535 - ((-(i + 1)) \div 65536), 65535 - ((-(i + 1)) % 65536)>>

\* A faulty sum, which the bounds check of read_string must tell from the
\* real one: the end is computed in 32 bits and wraps around
wrapping_add(a, b) ==
    LET lo == a[2] + b[2]
        hi == a[1] + b[1] + (lo \div 65536)
    IN Ok(<<0, hi % 65536, lo % 65536>>)

\* start.checked_add(len as usize) for two u32 on a usize of 64 bits: the
\* sum as the limbs <<bit 32, high, low>>; it never overflows
checked_add(a, b) ==
    LET lo == a[2] + b[2]
        hi == a[1] + b[1] + (lo \div 65536)
    IN Ok(<<hi \div 65536, hi % 65536, lo % 65536>>)

\* read_string: the bounds check on start + len, then UTF-8 decoding of
\* data[start..end]; ptr and len are u32, and a start within the memory
\* is its low limb
read_string(mem, ptr, len) ==
    LET end == checked_add(ptr, len)
    IN IF ~end.ok THEN Err("overflow", <<>>)
       ELSE IF end.val[1] > 0 \/ end.val[2] > 0 \/ end.val[3] > Len(mem)
       THEN Err("bounds", <<>>)
       ELSE from_utf8(SubSeq(mem, ptr[2] + 1, end.val[3]))

\* data[start..end].copy_from_slice(bytes)
CopyInto(mem, ptr, bytes) ==
    [i \in 1..Len(mem) |->
        IF i > ptr /\ i <= ptr + Len(bytes) THEN bytes[i - ptr] ELSE mem[i]]

\* what a call of the guest's allocate export can do: return an offset of
\* the guest's choosing, or trap
AllocTrap == -1
AllocResults == {0, DataOff, MemSize, AllocTrap}

\* A faulty writer, which the round trip of a string must tell from the
\* real one: the length returned counts characters, not bytes
write_string_at_chars(mem, alloc, s) ==
    LET bytes == as_bytes(s)
    IN IF alloc = AllocTrap THEN [ok |-> FALSE, err |-> "allocate_failed", mem |-> mem]
       ELSE IF alloc + Len(bytes) > Len(mem)
       THEN [ok |-> FALSE, err |-> "bounds", mem |-> mem]
       ELSE [ok |-> TRUE, ptr |-> alloc, len |-> Len(s),
             mem |-> CopyInto(mem, alloc, bytes)]

\* write_string / write_string_caller after the allocate export was found:
\* [ok, ptr, len, mem]
write_string_at(mem, alloc, s) ==
    LET bytes == as_bytes(s)
    IN IF alloc = AllocTrap THEN [ok |-> FALSE, err |-> "allocate_failed", mem |-> mem]
       ELSE IF alloc + Len(bytes) > Len(mem)
       THEN [ok |-> FALSE, err |-> "bounds", mem |-> mem]
       ELSE [ok |-> TRUE, ptr |-> alloc, len |-> Len(bytes),
             mem |-> CopyInto(mem, alloc, bytes)]

-----------------------------------------------------------------------------
(* serde_json on the payloads that cross the boundary *)

\* serde_json::to_string(&FsReadResponse { content }), for contents that
\* need no escaping
FsReadResponseJson(content) ==
    <<"{", "\"", "c", "o", "n", "t", "e", "n", "t", "\"", ":", "\"">> \o content \o <<"\"", "}">>

ReqF == <<"{", "\"", "c", "o", "m", "m", "a", "n", "d", "\"", ":", "\"", "f", "\"", "}">>
ReqTmpF ==
    <<"{", "\"", "c", "o", "m", "m", "a", "n", "d", "\"", ":", "\"", "/", "t", "m", "p",
      "/", "x", "/", "f", "\"", ",", "\"", "a", "r", "g", "s", "\"", ":", "[", "\"", "a",
      "\"", "]", "}">>
ReqG == <<"{", "\"", "c", "o", "m", "m", "a", "n", "d", "\"", ":", "\"", "g", "\"", "}">>
ReqBad == <<"f", " ", "a">>

\* serde_json::from_str::<ExecRequest>, on the request texts of the model
ParseExecRequest(text) ==
    IF text = ReqF THEN Ok([command |-> <<"f">>, args |-> <<>>])
    ELSE IF text = ReqTmpF
    THEN Ok([command |-> <<"/", "t", "m", "p", "/", "x", "/", "f">>, args |-> << <<"a">> >>])
    ELSE IF text = ReqG THEN Ok([command |-> <<"g">>, args |-> <<>>])
    ELSE Err("json", <<>>)

\* serde_json::to_string(&ExecResponse {..}), for empty stdout and stderr
ExecResponseJson(out) ==
    <<"{", "\"", "e", "x", "i", "t", "_", "c", "o", "d", "e", "\"", ":">> \o out.code
    \o <<",", "\"", "s", "t", "d", "o", "u", "t", "\"", ":", "\"", "\"",
         ",", "\"", "s", "t", "d", "e", "r", "r", "\"", ":", "\"", "\"", "}">>
\* serde_json::to_string(&HttpResponse {..}), for an empty body
HttpResponseJson(resp) ==
    <<"{", "\"", "s", "t", "a", "t", "u", "s", "\"", ":">> \o resp.status
    \o <<",", "\"", "b", "o", "d", "y", "\"", ":", "\"", "\"", "}">>

-----------------------------------------------------------------------------
(* The file system (std::fs): a map from a normalised absolute path to a   *)
(* directory or to a file's content.                                       *)

DirNode == <<"(dir)">>

\* the node a path names: its components, "." dropped and ".." followed
RECURSIVE FollowDots(_, _)
FollowDots(comps, acc) ==
    IF comps = <<>> THEN acc
    ELSE IF Head(comps) \in {RootDir, Dot} THEN FollowDots(Tail(comps), acc)
    ELSE IF Head(comps) = DotDot
    THEN FollowDots(Tail(comps), IF acc = <<>> THEN acc ELSE SubSeq(acc, 1, Len(acc) - 1))
    ELSE FollowDots(Tail(comps), Append(acc, Head(comps)))
FsKey(path) == FollowDots(Components(path), <<>>)

Ancestors(key) == {SubSeq(key, 1, n) : n \in 0..(Len(key) - 1)}
ParentKey(key) == SubSeq(key, 1, Len(key) - 1)

\* Path::exists
FsExists(files, path) == FsKey(path) \in DOMAIN files

\* std::fs::read_to_string
FsRead(files, path) ==
    LET key == FsKey(path)
    IN IF key \in DOMAIN files /\ files[key] # DirNode THEN Ok(files[key])
       ELSE Err("io", <<>>)

\* std::fs::create_dir_all(dir): fails when a file is in the way
FsCreateDirAll(files, dir) ==
    LET key == FsKey(dir)
        need == Ancestors(key) \cup {key}
    IN IF \E k \in need : k \in DOMAIN files /\ files[k] # DirNode
       THEN Err("io", <<>>)
       ELSE Ok([k \in DOMAIN files \cup need |->
                   IF k \in DOMAIN files THEN files[k] ELSE DirNode])

\* std::fs::write: the parent must be a directory, the path none
FsWrite(files, path, data) ==
    LET key == FsKey(path)
    IN IF \/ key = <<>>
          \/ ParentKey(key) \notin DOMAIN files
          \/ files[ParentKey(key)] # DirNode
          \/ (key \in DOMAIN files /\ files[key] = DirNode)
       THEN Err("io", <<>>)
       ELSE Ok([k \in DOMAIN files \cup {key} |-> IF k = key THEN data ELSE files[k]])

\* a path string with the given components
RECURSIVE FromComponents(_)
FromComponents(c) ==
    IF c = <<>> THEN <<>>
    ELSE IF Head(c) = RootDir THEN <<Sep>> \o FromComponents(Tail(c))
    ELSE IF Len(c) = 1 THEN Head(c)
    ELSE Head(c) \o <<Sep>> \o FromComponents(Tail(c))

\* Path::parent: the path without its last component; NoStr for the root
\* and the empty path
PathParent(path) ==
    LET c == Components(path)
    IN IF c = <<>> \/ c[Len(c)] = RootDir THEN NoStr
       ELSE FromComponents(SubSeq(c, 1, Len(c) - 1))

-----------------------------------------------------------------------------
(* host_functions.rs: the host function surface.  Each implementation      *)
(* gives [ret, effects, files, mem]: the value returned to the guest, the  *)
(* accesses made to the file system, process table and network in order,   *)
(* the file system and the guest memory afterwards.                        *)

I32(v) == [i32 |-> v]
Unit == [unit |-> TRUE]

Effect(op, target) == [op |-> op, target |-> target]

HostResult(ret, effects, files, mem) ==
    [ret |-> ret, effects |-> effects, files |-> files, mem |-> mem]

\* Faulty host functions, which the properties of the host function surface
\* must tell from the real ones: the path or the command is used without
\* validation, the network gate is open to every plugin
HostValidatePathUnchecked(h, hs, path_str) == Ok(Resolve(hs, path_str))
HostValidateCommandUnchecked(names, hs, command) == Ok(command)
HostNetworkAlways(hs) == TRUE

\* caller.data().validate_path(&path_str), as the fs functions call it
HostValidatePath(h, hs, path_str) == validate_path(h, hs, path_str)

\* caller.data().validate_command(&req.command), as exec_impl calls it
HostValidateCommand(names, hs, command) == validate_command(names, hs, command)

\* the network gate of http_get_impl
HostNetworkAllowed(hs) == has_network_permission(hs)

\* A faulty tail of the host functions, which the absence of re-entrancy
\* must tell from the real one: an operation of the adapter is called back
ReturnResponseReentrant(exports, files, mem, effects, alloc, response_json) ==
    HostResult(NullFat, effects, files, mem) @@ [invoked |-> <<"allocate", "adapter_sync">>]

\* A faulty tail of the host functions that return a buffer, which the
\* meaning of their result must tell from the real one: the value returned
\* is the offset alone
ReturnResponseOffsetOnly(exports, files, mem, effects, alloc, response_json) ==
    IF "allocate" \notin exports THEN HostResult(NullFat, effects, files, mem)
    ELSE LET w == write_string_at(mem, alloc, response_json)
             invoked == [invoked |-> <<"allocate">>]
         IN IF ~w.ok THEN HostResult(NullFat, effects, files, w.mem) @@ invoked
            ELSE HostResult(FatPtr(0, w.ptr), effects, files, w.mem) @@ invoked

\* the tail shared by exec_impl, fs_read_impl and http_get_impl: find the
\* allocate export, write the response, return its fat pointer
\* invoked names the exports of the guest that were called on the way
ReturnResponse(exports, files, mem, effects, alloc, response_json) ==
    IF "allocate" \notin exports THEN HostResult(NullFat, effects, files, mem)
    ELSE LET w == write_string_at(mem, alloc, response_json)
             invoked == [invoked |-> <<"allocate">>]
         IN IF ~w.ok THEN HostResult(NullFat, effects, files, w.mem) @@ invoked
            ELSE HostResult(FatPtr(w.ptr, w.len), effects, files, w.mem) @@ invoked

\* register_host_fs_read / fs_read_impl
fs_read_impl(h, hs, exports, files, mem, ptr, len, alloc) ==
    LET fail == HostResult(NullFat, <<>>, files, mem)
    IN IF "memory" \notin exports THEN fail
       ELSE LET path_str == read_string(mem, U32(ptr), U32(len))
            IN IF ~path_str.ok THEN fail
               ELSE LET validated == HostValidatePath(h, hs, path_str.val)
                    IN IF ~validated.ok THEN fail
                       ELSE LET content == FsRead(files, validated.val)
                                eff == <<Effect("read", validated.val)>>
                            IN IF ~content.ok THEN HostResult(NullFat, eff, files, mem)
                               ELSE ReturnResponse(exports, files, mem, eff, alloc,
                                                   FsReadResponseJson(content.val))

\* A faulty host_fs_write, which the meaning of its status must tell from the
\* real one: the parent directories are created before the data is read
fs_write_impl_eager(h, hs, exports, files, mem, path_ptr, path_len, data_ptr, data_len) ==
    LET fail == HostResult(I32(-1), <<>>, files, mem)
    IN IF "memory" \notin exports THEN fail
       ELSE LET path_str == read_string(mem, U32(path_ptr), U32(path_len))
            IN IF ~path_str.ok THEN fail
               ELSE LET validated == HostValidatePath(h, hs, path_str.val)
                    IN IF ~validated.ok THEN fail
                       ELSE LET data == read_string(mem, U32(data_ptr), U32(data_len))
                                parent == PathParent(validated.val)
                                made == IF parent # NoStr
                                        THEN FsCreateDirAll(files, parent)
                                        ELSE Ok(files)
                                effDir == IF parent # NoStr
                                          THEN <<Effect("mkdir", parent)>>
                                          ELSE <<>>
                            IN IF ~made.ok THEN HostResult(I32(-1), effDir, files, mem)
                               ELSE IF ~data.ok
                               THEN HostResult(I32(-1), effDir, made.val, mem)
                               ELSE LET written == FsWrite(made.val, validated.val, data.val)
                                        eff == Append(effDir, Effect("write", validated.val))
                                    IN IF ~written.ok
                                       THEN HostResult(I32(-1), eff, made.val, mem)
                                       ELSE HostResult(I32(0), eff, written.val, mem)

\* register_host_fs_write / fs_write_impl
fs_write_impl(h, hs, exports, files, mem, path_ptr, path_len, data_ptr, data_len) ==
    LET fail == HostResult(I32(-1), <<>>, files, mem)
    IN IF "memory" \notin exports THEN fail
       ELSE LET path_str == read_string(mem, U32(path_ptr), U32(path_len))
            IN IF ~path_str.ok THEN fail
               ELSE LET validated == HostValidatePath(h, hs, path_str.val)
                    IN IF ~validated.ok THEN fail
                       ELSE LET data == read_string(mem, U32(data_ptr), U32(data_len))
                            IN IF ~data.ok THEN fail
                               ELSE LET parent == PathParent(validated.val)
                                        made == IF parent # NoStr
                                                THEN FsCreateDirAll(files, parent)
                                                ELSE Ok(files)
                                        effDir == IF parent # NoStr
                                                  THEN <<Effect("mkdir", parent)>>
                                                  ELSE <<>>
                                    IN IF ~made.ok THEN HostResult(I32(-1), effDir, files, mem)
                                       ELSE LET written == FsWrite(made.val, validated.val, data.val)
                                                eff == Append(effDir, Effect("write", validated.val))
                                            IN IF ~written.ok
                                               THEN HostResult(I32(-1), eff, made.val, mem)
                                               ELSE HostResult(I32(0), eff, written.val, mem)

\* register_host_fs_exists
fs_exists_impl(h, hs, exports, files, mem, ptr, len) ==
    LET fail == HostResult(I32(-1), <<>>, files, mem)
    IN IF "memory" \notin exports THEN fail
       ELSE LET path_str == read_string(mem, U32(ptr), U32(len))
            IN IF ~path_str.ok THEN fail
               ELSE LET validated == HostValidatePath(h, hs, path_str.val)
                    IN IF ~validated.ok THEN fail
                       ELSE HostResult(I32(IF FsExists(files, validated.val) THEN 1 ELSE 0),
                                       <<Effect("exists", validated.val)>>, files, mem)

\* what Command::output can give: a spawn failure, or the exit code
ProcOutcomes == {[ok |-> FALSE, code |-> <<>>], [ok |-> TRUE, code |-> <<"0">>],
                 [ok |-> TRUE, code |-> <<"1">>]}

\* register_host_exec / exec_impl
exec_impl(names, hs, exports, files, mem, ptr, len, proc, alloc) ==
    LET fail == HostResult(NullFat, <<>>, files, mem)
    IN IF "memory" \notin exports THEN fail
       ELSE LET json_str == read_string(mem, U32(ptr), U32(len))
            IN IF ~json_str.ok THEN fail
               ELSE LET req == ParseExecRequest(json_str.val)
                    IN IF ~req.ok THEN fail
                       ELSE LET resolved_cmd == HostValidateCommand(names, hs, req.val.command)
                            IN IF ~resolved_cmd.ok THEN fail
                               ELSE LET eff == <<[op |-> "spawn", target |-> resolved_cmd.val,
                                                  args |-> req.val.args]>>
                                    IN IF ~proc.ok THEN HostResult(NullFat, eff, files, mem)
                                       ELSE ReturnResponse(exports, files, mem, eff, alloc,
                                                           ExecResponseJson(proc))

\* what ureq::get(url).call() and reading the body can give
HttpOutcomes == {[ok |-> FALSE, status |-> <<>>],
                 [ok |-> TRUE, status |-> <<"2", "0", "0">>]}

\* register_host_http_get / http_get_impl
http_get_impl(hs, exports, files, mem, ptr, len, resp, alloc) ==
    LET fail == HostResult(NullFat, <<>>, files, mem)
    IN IF ~HostNetworkAllowed(hs) THEN fail
       ELSE IF "memory" \notin exports THEN fail
       ELSE LET url == read_string(mem, U32(ptr), U32(len))
            IN IF ~url.ok THEN fail
               ELSE LET eff == <<Effect("http", url.val)>>
                    IN IF ~resp.ok THEN HostResult(NullFat, eff, files, mem)
                       ELSE ReturnResponse(exports, files, mem, eff, alloc,
                                           HttpResponseJson(resp))

\* register_host_log and register_host_report_progress: the text is logged
\* under the plugin's id, nothing is returned, every failure is swallowed
log_impl(hs, exports, files, mem, ptr, len, kind) ==
    LET none == HostResult(Unit, <<>>, files, mem)
    IN IF "memory" \notin exports THEN none
       ELSE LET msg == read_string(mem, U32(ptr), U32(len))
            IN IF ~msg.ok THEN none
               ELSE HostResult(Unit, <<[op |-> kind, target |-> msg.val,
                                        plugin |-> hs.adapter_id]>>, files, mem)

-----------------------------------------------------------------------------
(* The capability validator applied to enumerated requests *)

HomeDir == <<"/", "h">>
Homes == {NoHome, HomeDir}

Downloads == <<"D", "o", "w", "n", "l", "o", "a", "d", "s">>
TildeDownloads == TildeSlash \o Downloads
OptDir == <<"/", "o", "p", "t">>
OptSub == <<"/", "o", "p", "t", "/", "a", "/">>

PluginP == <<"p">>
PluginQ == <<"q">>

\* every sequence over the set S of length at most n
RECURSIVE ListsUpTo(_, _)
ListsUpTo(S, n) ==
    IF n = 0 THEN {<<>>}
    ELSE LET shorter == ListsUpTo(S, n - 1)
         IN shorter \cup {Append(l, e) : l \in {t \in shorter : Len(t) = n - 1}, e \in S}

PathAlphabet == {Sep, ".", "a"}
PathStems(h) ==
    {<<>>, <<Sep>>, data_dir_for(h, PluginP), data_dir_for(h, PluginQ),
     OptDir, OptDir \o <<Sep>>, TildeDownloads}
    \cup (IF h # NoHome THEN {PathJoin(h, Downloads)} ELSE {})
RequestedPaths(h) ==
    {stem \o tail : stem \in PathStems(h), tail \in StringsUpTo(PathAlphabet, MaxTail)}
AllowedEntries == {TildeDownloads, OptDir, OptSub}
FilesystemLists == ListsUpTo(AllowedEntries, MaxList)

CmdAlphabet == {Sep, ".", "f"}
CmdStems == {<<>>, <<"/", "u", "s", "r", "/", "b", "i", "n", "/">>, <<"x", "/">>}
RequestedCommands ==
    {stem \o tail : stem \in CmdStems, tail \in StringsUpTo(CmdAlphabet, MaxTail)}
CommandNames == {<<"f">>, <<"f", "f">>}
ExecLists == ListsUpTo(CommandNames \cup {DotDot}, MaxList)

Pending == [ok |-> FALSE, err |-> "pending", plugin |-> <<>>]
NoRequest == [kind |-> "none"]

Permissions(network, filesystem, exec_commands) ==
    [network |-> network, filesystem |-> filesystem, exec_commands |-> exec_commands]

InitValidate ==
    /\ home \in Homes
    /\ adapters = <<>>
    /\ fsys = <<>>
    /\ workers = <<>>
    /\ hostcall = <<>>
    /\ vres = Pending
    /\ \/ \E path \in RequestedPaths(home), fl \in FilesystemLists :
             /\ onPath = {}
             /\ vreq = [kind |-> "path", arg |-> path,
                        hs |-> HostStateNew(home, PluginP, Permissions(FALSE, fl, <<>>))]
       \/ \E cmd \in RequestedCommands, el \in ExecLists :
             /\ onPath \in SUBSET CommandNames
             /\ vreq = [kind |-> "cmd", arg |-> cmd,
                        hs |-> HostStateNew(home, PluginP, Permissions(FALSE, <<>>, el))]

ApplyValidatePath ==
    /\ vreq.kind = "path"
    /\ vres = Pending
    /\ vres' = validate_path(home, vreq.hs, vreq.arg)
    /\ UNCHANGED <<home, onPath, vreq, adapters, fsys, workers, hostcall>>

ApplyValidateCommand ==
    /\ vreq.kind = "cmd"
    /\ vres = Pending
    /\ vres' = validate_command(onPath, vreq.hs, vreq.arg)
    /\ UNCHANGED <<home, onPath, vreq, adapters, fsys, workers, hostcall>>

NextValidate == ApplyValidatePath \/ ApplyValidateCommand

SpecValidate == InitValidate /\ [][NextValidate]_vars

PathDecided == vreq.kind = "path" /\ vres # Pending
CmdDecided == vreq.kind = "cmd" /\ vres # Pending

-----------------------------------------------------------------------------
(* adapter.rs: loaded adapters and the per-call execution model *)

FUEL_LIMIT == 10000000

\* the budget one guest step of the model burns
StepCost == FUEL_LIMIT \div FuelSteps

OpSync == "adapter_sync"
OpListInstalled == "adapter_list_installed"
NoArgOps == {OpSync}
JsonOps == {OpListInstalled}

AllExports == {"memory", "allocate", "deallocate", OpSync, OpListInstalled}

\* the two loaded plugins: p declares filesystem ["~/Downloads"], no exec
\* commands and no network; q declares filesystem ["/opt"], the commands f
\* and g and network access, and its module has no adapter_sync export
CmdF == <<"f">>
CmdG == <<"g">>
Plugins == {PluginP, PluginQ}
ManifestPermissions(p) ==
    IF p = PluginP THEN Permissions(FALSE, <<TildeDownloads>>, <<>>)
    ELSE Permissions(TRUE, <<OptDir>>, <<CmdF, CmdG>>)
ModuleExports(p) == IF p = PluginP THEN AllExports ELSE AllExports \ {OpSync}

\* the fields of WasmAdapter that calls use, as load() leaves them
LoadedAdapter(h, p) ==
    [host_state |-> HostStateNew(h, p, ManifestPermissions(p)), exports |-> ModuleExports(p)]

PathTraversal ==
    <<".", ".", "/", ".", ".", "/", "e", "t", "c", "/", "p", "a", "s", "s", "w", "d">>
PathEtc == <<"/", "e", "t", "c", "/", "p", "a", "s", "s", "w", "d">>
FileA == <<"a", ".", "t", "x", "t">>
PathTildeA == TildeDownloads \o <<Sep>> \o FileA
PathHomeA == PathJoin(PathJoin(HomeDir, Downloads), FileA)
PathOptB == <<"/", "o", "p", "t", "/", "b">>
ContentA == <<"h", "i">>
ContentEtc == <<"r">>

\* the file system when the adapters are loaded: load() has created each
\* plugin's data directory
InitialFiles(h) ==
    LET dirs == {<<Sep>>, <<"/", "e", "t", "c">>, OptDir, PathJoin(HomeDir, Downloads)}
                \cup {data_dir_for(h, p) : p \in Plugins}
        keys == UNION {Ancestors(FsKey(d)) \cup {FsKey(d)} : d \in dirs}
        fileKeys == {FsKey(PathEtc), FsKey(PathHomeA)}
    IN [k \in keys \cup fileKeys |->
           IF k = FsKey(PathEtc) THEN ContentEtc
           ELSE IF k = FsKey(PathHomeA) THEN ContentA
           ELSE DirNode]

NoStore == [none |-> TRUE]
NoOutcome == [ok |-> FALSE, err |-> "none", msg |-> "none"]
OkOutcome(v) == [ok |-> TRUE, val |-> v]
PluginError(msg) == [ok |-> FALSE, err |-> "PluginError", msg |-> msg]
NoHostCall == [fn |-> "none"]

\* the threads guest code can execute on: the thread that asked for the load
\* or the call, and a thread of the runtime's pool for blocking work
RequestThread == "request"
BlockingThread == "blocking"
NoThread == "none"

IdleWorker ==
    [pc |-> "idle", plugin |-> <<>>, export |-> "none", store |-> NoStore,
     outcome |-> NoOutcome, thread |-> NoThread, invoked |-> <<>>,
     consumed |-> <<>>]

\* func.call(&mut store, args) on an export of the guest, made by the host
\* in the course of a call: invoked lists these calls in order
Invoke(rec, export, args) ==
    [rec EXCEPT !.invoked = Append(@, [export |-> export, args |-> args])]

\* tokio::task::spawn_blocking(move || ..): the closure, and every call into
\* the guest it makes, runs on a thread of the blocking pool
spawn_blocking(rec) == [rec EXCEPT !.thread = BlockingThread]

\* Faulty adapters, which the properties of calls must tell from the real
\* one: a store whose budget was never set, an engine that does not meter
\* guest execution, and a store that the calls into one plugin share
fresh_instance_unfuelled(host_state) ==
    [fuel |-> 0, mem |-> InitialMemory, data |-> host_state]
AfterStepFree(store, mem) == [store EXCEPT !.mem = mem]
UpdateWorkerShared(ws, w, rec) ==
    [v \in DOMAIN ws |->
        IF v = w THEN rec
        ELSE IF ws[v].pc = "guest" /\ rec.pc = "guest" /\ ws[v].plugin = rec.plugin
        THEN [ws[v] EXCEPT !.store = rec.store]
        ELSE ws[v]]

\* WasmAdapter::fresh_instance: a new Store with the full budget around a
\* copy of the host state, and a new instance of the module in it
\* A faulty adapter: the store's state is not the clone of the adapter's
\* state but one with the network opened
fresh_instance_widened(host_state) ==
    [fuel |-> FUEL_LIMIT, mem |-> InitialMemory,
     data |-> [host_state EXCEPT !.permissions.network = TRUE]]

fresh_instance(host_state) ==
    [fuel |-> FUEL_LIMIT, mem |-> InitialMemory, data |-> host_state]

\* the closure of one call owns its store: only that worker's record changes
UpdateWorker(ws, w, rec) == [ws EXCEPT ![w] = rec]

\* the call ends: the store is dropped, the outcome goes to the caller
EndCall(ws, w, outcome) ==
    UpdateWorker(ws, w, [ws[w] EXCEPT !.pc = "idle", !.store = NoStore,
                                      !.outcome = outcome])

\* serde_json::to_string(&ModeInput { mode: "user" })
ModeInputJson ==
    <<"{", "\"", "m", "o", "d", "e", "\"", ":", "\"", "u", "s", "e", "r", "\"", "}">>

JsonNull == <<"n", "u", "l", "l">>
JsonEmptyList == <<"[", "]">>

OpInit == "adapter_init"
OpInfo == "adapter_info"
OpCapabilities == "adapter_capabilities"

\* serde_json::from_str on the text of a JSON object without white space
\* and escapes, whose values are strings, null, true, false and one-digit
\* numbers
Quote == "\""
JsonTrue == <<"t", "r", "u", "e">>
JsonFalse == <<"f", "a", "l", "s", "e">>
JsonDigits == {"0", "1"}
JsonBad == [ok |-> FALSE, err |-> "json", plugin |-> <<>>]

\* is lit the text from position i on
LiteralAt(text, i, lit) ==
    i + Len(lit) - 1 <= Len(text) /\ SubSeq(text, i, i + Len(lit) - 1) = lit

\* the position of the first quote at or after i, 0 when there is none
RECURSIVE FindQuote(_, _)
FindQuote(text, i) ==
    IF i > Len(text) THEN 0
    ELSE IF text[i] = Quote THEN i
    ELSE FindQuote(text, i + 1)

\* the value that starts at position i: [ok, kind, val, next]
JsonValueAt(text, i) ==
    IF i > Len(text) THEN JsonBad
    ELSE IF text[i] = Quote
    THEN LET j == FindQuote(text, i + 1)
         IN IF j = 0 THEN JsonBad
            ELSE [ok |-> TRUE, kind |-> "string", val |-> SubSeq(text, i + 1, j - 1),
                  next |-> j + 1]
    ELSE IF LiteralAt(text, i, JsonNull)
    THEN [ok |-> TRUE, kind |-> "null", val |-> JsonNull, next |-> i + 4]
    ELSE IF LiteralAt(text, i, JsonTrue)
    THEN [ok |-> TRUE, kind |-> "bool", val |-> JsonTrue, next |-> i + 4]
    ELSE IF LiteralAt(text, i, JsonFalse)
    THEN [ok |-> TRUE, kind |-> "bool", val |-> JsonFalse, next |-> i + 5]
    ELSE IF text[i] \in JsonDigits
    THEN [ok |-> TRUE, kind |-> "number", val |-> <<text[i]>>, next |-> i + 1]
    ELSE JsonBad

\* the members of an object from position i on, after the members acc
RECURSIVE JsonMembersAt(_, _, _)
JsonMembersAt(text, i, acc) ==
    LET k == JsonValueAt(text, i)
    IN IF ~k.ok \/ k.kind # "string" THEN JsonBad
       ELSE IF k.next > Len(text) \/ text[k.next] # ":" THEN JsonBad
       ELSE LET v == JsonValueAt(text, k.next + 1)
                members == Append(acc, [key |-> k.val, kind |-> v.kind, val |-> v.val])
            IN IF ~v.ok \/ v.next > Len(text) THEN JsonBad
               ELSE IF text[v.next] = "," THEN JsonMembersAt(text, v.next + 1, members)
               ELSE IF text[v.next] = "}" /\ v.next = Len(text) THEN Ok(members)
               ELSE JsonBad

\* the members of the object text, in their order
JsonObject(text) ==
    IF Len(text) < 2 \/ text[1] # "{" THEN JsonBad
    ELSE IF text = <<"{", "}">> THEN Ok(<<>>)
    ELSE JsonMembersAt(text, 2, <<>>)

None == [some |-> FALSE]
Some(v) == [some |-> TRUE, val |-> v]

\* A faulty Option::unwrap_or, which the identity of a loaded adapter must
\* tell from the real one: the default also when there is a value
unwrap_or_never(opt, default) == default
unwrap_or(opt, default) == IF opt.some THEN opt.val ELSE default

\* one field of a derived Deserialize: a key given twice is an error, a
\* key not given is the default; kinds are the kinds of value the field's
\* type takes
Field(members, key, kinds) ==
    LET at == {i \in 1..Len(members) : members[i].key = key}
    IN IF Cardinality(at) > 1 THEN JsonBad
       ELSE IF at = {} THEN Ok(None)
       ELSE LET m == members[CHOOSE i \in at : TRUE]
            IN IF m.kind \notin kinds THEN JsonBad
               ELSE IF m.kind = "null" THEN Ok(None)
               ELSE Ok(Some(m.val))

KeyId == <<"i", "d">>
KeyName == <<"n", "a", "m", "e">>
KeyVersion == <<"v", "e", "r", "s", "i", "o", "n">>
KeyDescription == <<"d", "e", "s", "c", "r", "i", "p", "t", "i", "o", "n">>
KeyIcon == <<"i", "c", "o", "n">>
KeyCanSearch == <<"c", "a", "n", "_", "s", "e", "a", "r", "c", "h">>
KeyCanSync == <<"c", "a", "n", "_", "s", "y", "n", "c">>

\* PluginInfo, the type load() reads the result of adapter_info into: five
\* Option<String> with #[serde(default)], keys it does not know are skipped
DeserializePluginInfo(text) ==
    LET obj == JsonObject(text)
        opt == {"string", "null"}
        f == [k \in {KeyId, KeyName, KeyVersion, KeyDescription, KeyIcon} |->
                 Field(obj.val, k, opt)]
    IN IF ~obj.ok THEN JsonBad
       ELSE IF \E k \in DOMAIN f : ~f[k].ok THEN JsonBad
       ELSE Ok([id |-> f[KeyId].val, name |-> f[KeyName].val,
                version |-> f[KeyVersion].val, description |-> f[KeyDescription].val,
                icon |-> f[KeyIcon].val])

\* Capabilities, of whose bool fields with #[serde(default)] the model
\* keeps can_search and can_sync; the other fields behave as these
Capabilities(can_search, can_sync) == [can_search |-> can_search, can_sync |-> can_sync]
DeserializeCapabilities(text) ==
    LET obj == JsonObject(text)
        f == [k \in {KeyCanSearch, KeyCanSync} |-> Field(obj.val, k, {"bool"})]
    IN IF ~obj.ok THEN JsonBad
       ELSE IF \E k \in DOMAIN f : ~f[k].ok THEN JsonBad
       ELSE Ok(Capabilities(unwrap_or(f[KeyCanSearch].val, JsonFalse) = JsonTrue,
                            unwrap_or(f[KeyCanSync].val, JsonFalse) = JsonTrue))

\* serde_json::from_str for the result type of the export: serde_json::Value
\* for adapter_sync, Vec<InstalledPackage> for adapter_list_installed,
\* PluginInfo for adapter_info, Capabilities for adapter_capabilities
ParseResultJson(export, text) ==
    IF export = OpInfo THEN DeserializePluginInfo(text)
    ELSE IF export = OpCapabilities THEN DeserializeCapabilities(text)
    ELSE IF text = JsonEmptyList \/ (text = JsonNull /\ export = OpSync) THEN Ok(text)
    ELSE Err("json", <<>>)

\* A faulty reader, which the errors of read_result_json must tell from the
\* real one: the pair (0, 0) is read as an empty region like any other
read_result_json_unchecked(export, mem, fat_ptr) ==
    LET json_str == read_string(mem, decode_fat_ptr(fat_ptr)[1], decode_fat_ptr(fat_ptr)[2])
    IN IF ~json_str.ok THEN json_str
       ELSE ParseResultJson(export, json_str.val)

\* read_result_json
read_result_json(export, mem, fat_ptr) ==
    LET ptr == decode_fat_ptr(fat_ptr)[1]
        len == decode_fat_ptr(fat_ptr)[2]
    IN IF ptr = U32(0) /\ len = U32(0) THEN Err("null_pointer", <<>>)
       ELSE LET json_str == read_string(mem, ptr, len)
            IN IF ~json_str.ok THEN json_str
               ELSE ParseResultJson(export, json_str.val)

\* WasmAdapter::call_no_args up to func.call: a fresh instance, then the
\* lookup of the export
CallNoArgs(w, p, export) ==
    /\ workers[w].pc = "idle"
    /\ LET started == spawn_blocking(
                         [workers[w] EXCEPT
                            !.pc = "guest", !.plugin = p, !.export = export,
                            !.store = fresh_instance(adapters[p].host_state),
                            !.outcome = NoOutcome, !.invoked = <<>>,
                            !.consumed = <<>>])
           ws == UpdateWorker(workers, w, started)
       IN workers' = IF export \notin adapters[p].exports
                     THEN EndCall(ws, w, PluginError("missing_export"))
                     ELSE UpdateWorker(ws, w, Invoke(started, export, <<>>))
    /\ hostcall' = [hostcall EXCEPT ![w] = NoHostCall]
    /\ UNCHANGED <<home, onPath, vreq, vres, adapters, fsys>>

\* WasmAdapter::call_with_json up to func.call: a fresh instance, the input
\* written through the guest's allocate export (which runs in the call's
\* store and burns cost of its fuel), then the lookup of the export
CallWithJson(w, p, export, alloc, cost) ==
    /\ workers[w].pc = "idle"
    /\ LET fresh == fresh_instance(adapters[p].host_state)
           started == spawn_blocking(
                         [workers[w] EXCEPT
                            !.pc = "guest", !.plugin = p, !.export = export,
                            !.store = fresh, !.outcome = NoOutcome,
                            !.invoked = <<>>, !.consumed = <<>>])
           allocated == Invoke(started, "allocate", <<Len(as_bytes(ModeInputJson))>>)
           ws == UpdateWorker(workers, w,
                    IF "allocate" \in adapters[p].exports THEN allocated
                    ELSE started)
           wr == write_string_at(fresh.mem, alloc, ModeInputJson)
       IN workers' =
            IF "allocate" \notin adapters[p].exports
            THEN EndCall(ws, w, PluginError("missing_allocate"))
            ELSE IF alloc # AllocTrap /\ "memory" \notin adapters[p].exports
            THEN EndCall(ws, w, PluginError("missing_memory"))
            ELSE IF ~wr.ok THEN EndCall(ws, w, PluginError(wr.err))
            ELSE IF export \notin adapters[p].exports
            THEN EndCall(ws, w, PluginError("missing_export"))
            ELSE UpdateWorker(ws, w,
                    Invoke([allocated EXCEPT !.store.mem = wr.mem,
                                             !.store.fuel = @ - cost],
                           export, <<alloc, Len(as_bytes(ModeInputJson))>>))
    /\ hostcall' = [hostcall EXCEPT ![w] = NoHostCall]
    /\ UNCHANGED <<home, onPath, vreq, vres, adapters, fsys>>

\* the guest of worker w is executing and has budget for one more step
GuestRuns(w) == workers[w].pc = "guest" /\ workers[w].store.fuel >= StepCost

\* the bytes the guest put at ptr before a call (nothing when out of range)
GuestBytes(mem, ptr, s) == IF ptr + Len(s) <= Len(mem) THEN CopyInto(mem, ptr, s) ELSE mem

\* the store after a guest step that leaves the memory as mem
AfterStep(store, mem) == [store EXCEPT !.fuel = @ - StepCost, !.mem = mem]

\* the invocation of a host import: the function and the string the host
\* read at its first argument
Invocation(fn, arg) == [fn |-> fn, arg |-> arg]

\* the guest called a host import: its result reaches the guest's store, the
\* file system and the record of the invocation
HostReturns(w, call, r) ==
    /\ workers' = UpdateWorker(workers, w,
                     [workers[w] EXCEPT !.store = AfterStep(workers[w].store, r.mem)])
    /\ fsys' = r.files
    /\ hostcall' = [hostcall EXCEPT ![w] =
                       call @@ [effects |-> r.effects, ret |-> r.ret,
                                invoked |-> IF "invoked" \in DOMAIN r THEN r.invoked
                                            ELSE <<>>]]
    /\ UNCHANGED <<home, onPath, vreq, vres, adapters>>

ExportsOf(w) == adapters[workers[w].plugin].exports

\* the guest calls host_fs_read(ptr, len) with s at ptr
HostFsRead(w, s, ptr, alloc) ==
    /\ GuestRuns(w)
    /\ LET st == workers[w].store
           mem == GuestBytes(st.mem, ptr, s)
       IN HostReturns(w, Invocation("host_fs_read", read_string(mem, U32(ptr), U32(Len(s))))
                         @@ [alloc |-> alloc],
              fs_read_impl(home, st.data, ExportsOf(w), fsys, mem, ptr, Len(s), alloc))

\* the guest calls host_fs_write(0, len, DataOff, dlen) with the path at 0
\* and the data at DataOff
HostFsWrite(w, s, ptr, data) ==
    /\ GuestRuns(w)
    /\ Len(s) <= DataOff
    /\ LET st == workers[w].store
           mem == GuestBytes(GuestBytes(st.mem, ptr, s), DataOff, data)
       IN HostReturns(w, Invocation("host_fs_write", read_string(mem, U32(ptr), U32(Len(s)))),
              fs_write_impl(home, st.data, ExportsOf(w), fsys, mem, ptr, Len(s),
                            DataOff, Len(data)))

\* the guest calls host_fs_exists(ptr, len) with s at ptr
HostFsExists(w, s, ptr) ==
    /\ GuestRuns(w)
    /\ LET st == workers[w].store
           mem == GuestBytes(st.mem, ptr, s)
       IN HostReturns(w, Invocation("host_fs_exists", read_string(mem, U32(ptr), U32(Len(s)))),
              fs_exists_impl(home, st.data, ExportsOf(w), fsys, mem, ptr, Len(s)))

\* the guest calls host_exec(ptr, len) with the request s at ptr
HostExec(w, s, ptr, proc, alloc) ==
    /\ GuestRuns(w)
    /\ LET st == workers[w].store
           mem == GuestBytes(st.mem, ptr, s)
       IN HostReturns(w, Invocation("host_exec", read_string(mem, U32(ptr), U32(Len(s)))),
              exec_impl(onPath, st.data, ExportsOf(w), fsys, mem, ptr, Len(s), proc, alloc))

\* the guest calls host_http_get(ptr, len) with the URL s at ptr
HostHttpGet(w, s, ptr, resp, alloc) ==
    /\ GuestRuns(w)
    /\ LET st == workers[w].store
           mem == GuestBytes(st.mem, ptr, s)
       IN HostReturns(w, Invocation("host_http_get", read_string(mem, U32(ptr), U32(Len(s)))),
              http_get_impl(st.data, ExportsOf(w), fsys, mem, ptr, Len(s), resp, alloc))

\* the guest calls host_log or host_report_progress with s at ptr
HostLog(w, fn, s, ptr) ==
    /\ GuestRuns(w)
    /\ LET st == workers[w].store
           mem == GuestBytes(st.mem, ptr, s)
       IN HostReturns(w, Invocation(fn, read_string(mem, U32(ptr), U32(Len(s)))),
              log_impl(st.data, ExportsOf(w), fsys, mem, ptr, Len(s), fn))

\* the guest computes and stores s at ptr in its linear memory
GuestStore(w, s, ptr) ==
    /\ GuestRuns(w)
    /\ ptr + Len(s) <= MemSize
    /\ workers' = UpdateWorker(workers, w,
                     [workers[w] EXCEPT
                         !.store = AfterStep(workers[w].store,
                                             CopyInto(workers[w].store.mem, ptr, s))])
    /\ hostcall' = [hostcall EXCEPT ![w] = NoHostCall]
    /\ UNCHANGED <<home, onPath, vreq, vres, adapters, fsys>>

\* the export returns fat, the guest having put s at its offset: the host
\* finds the memory export and reads the JSON result, and the closure ends
\* with it; consumed is the region of guest memory the host has read
GuestReturn(w, fat, s) ==
    /\ workers[w].pc = "guest"
    /\ LET ptr == decode_fat_ptr(fat)[1]
           len == decode_fat_ptr(fat)[2]
           mem == GuestBytes(workers[w].store.mem, FromU32(ptr), s)
           res == read_result_json(workers[w].export, mem, fat)
           read == /\ "memory" \in ExportsOf(w)
                   /\ fat # NullFat
                   /\ read_string(mem, ptr, len).ok
           rec == [workers[w] EXCEPT
                     !.consumed = IF read THEN <<FromU32(ptr), FromU32(len)>>
                                  ELSE <<>>]
       IN workers' = EndCall(UpdateWorker(workers, w, rec), w,
                        IF "memory" \notin ExportsOf(w) THEN PluginError("missing_memory")
                        ELSE IF res.ok THEN OkOutcome(res.val)
                        ELSE PluginError(res.err))
    /\ hostcall' = [hostcall EXCEPT ![w] = NoHostCall]
    /\ UNCHANGED <<home, onPath, vreq, vres, adapters, fsys>>

\* the guest traps (unreachable, a memory access out of range, ...)
GuestTrap(w) ==
    /\ GuestRuns(w)
    /\ workers' = EndCall(workers, w, PluginError("failed_trap"))
    /\ hostcall' = [hostcall EXCEPT ![w] = NoHostCall]
    /\ UNCHANGED <<home, onPath, vreq, vres, adapters, fsys>>

\* the guest goes on executing with its budget used up: wasmtime traps
GuestOutOfFuel(w) ==
    /\ workers[w].pc = "guest"
    /\ workers[w].store.fuel < StepCost
    /\ workers' = EndCall(workers, w, PluginError("failed_out_of_fuel"))
    /\ hostcall' = [hostcall EXCEPT ![w] = NoHostCall]
    /\ UNCHANGED <<home, onPath, vreq, vres, adapters, fsys>>

-----------------------------------------------------------------------------
(* One worker, the whole host function surface *)

UrlH == <<"h", "t", "t", "p", ":", "/", "/", "h", "/">>
ReadPaths == {PathTraversal, PathTildeA, FileA, PathHomeA, PathEtc, PathOptB, <<BadByte>>}
WritePaths == {PathTraversal, FileA, PathEtc}
ExecRequests == {ReqF, ReqTmpF, ReqG, ReqBad}
Urls == {UrlH, <<BadByte>>}
Pointers == {0, MemSize}
ReturnChoices ==
    {<<NullFat, <<>> >>, <<FatPtr(0, 4), JsonNull>>, <<FatPtr(0, 2), JsonEmptyList>>,
     <<FatPtr(DataOff, 2), JsonEmptyList>>, <<FatPtr(0, 3), ReqBad>>,
     <<FatPtr(MemSize, 1), <<>> >>}

InitWorld(ws) ==
    /\ home = HomeDir
    /\ onPath = {CmdF}
    /\ vreq = NoRequest
    /\ vres = Pending
    /\ adapters = [p \in Plugins |-> LoadedAdapter(home, p)]
    /\ fsys = InitialFiles(home)
    /\ workers = [w \in ws |-> IdleWorker]
    /\ hostcall = [w \in ws |-> NoHostCall]

Init == InitWorld({"w1"})

Workers == DOMAIN workers

StartNoArgs == \E w \in Workers, p \in Plugins, op \in NoArgOps : CallNoArgs(w, p, op)
StartWithJson ==
    \E w \in Workers, p \in Plugins, op \in JsonOps, alloc \in AllocResults,
       cost \in {0, StepCost} : CallWithJson(w, p, op, alloc, cost)
ImportFsRead ==
    \E w \in Workers, s \in ReadPaths, ptr \in Pointers, alloc \in AllocResults :
        HostFsRead(w, s, ptr, alloc)
ImportFsWrite ==
    \E w \in Workers, s \in WritePaths, ptr \in Pointers : HostFsWrite(w, s, ptr, <<"x">>)
ImportFsExists ==
    \E w \in Workers, s \in ReadPaths, ptr \in Pointers : HostFsExists(w, s, ptr)
ImportExec ==
    \E w \in Workers, s \in ExecRequests, ptr \in Pointers, proc \in ProcOutcomes,
       alloc \in AllocResults : HostExec(w, s, ptr, proc, alloc)
ImportHttpGet ==
    \E w \in Workers, s \in Urls, ptr \in Pointers, resp \in HttpOutcomes,
       alloc \in AllocResults : HostHttpGet(w, s, ptr, resp, alloc)
ImportLog ==
    \E w \in Workers, fn \in {"host_log", "host_report_progress"}, ptr \in Pointers :
        HostLog(w, fn, <<"m">>, ptr)
Store == \E w \in Workers, ptr \in {0, DataOff} : GuestStore(w, <<"z">>, ptr)
Return == \E w \in Workers, rc \in ReturnChoices : GuestReturn(w, rc[1], rc[2])
Trap == \E w \in Workers : GuestTrap(w)
OutOfFuel == \E w \in Workers : GuestOutOfFuel(w)

Next ==
    \/ StartNoArgs
    \/ StartWithJson
    \/ ImportFsRead
    \/ ImportFsWrite
    \/ ImportFsExists
    \/ ImportExec
    \/ ImportHttpGet
    \/ ImportLog
    \/ Store
    \/ Return
    \/ Trap
    \/ OutOfFuel

Spec == Init /\ [][Next]_vars

\* the worker thread keeps running its guest: while a call is in progress
\* the engine goes on executing guest instructions, or aborts the call when
\* the budget does not pay for the next one
SpecLive == Spec /\ WF_vars(Store \/ OutOfFuel)

-----------------------------------------------------------------------------
(* host_fs_write on its own: one call of a loaded plugin, from every kind  *)
(* of path and data, on a file system with and without a file in the way  *)

PathSubB == <<"d", "/", "b">>
PathUnderA == FileA \o <<Sep, "x">>
PathDot == <<".">>
FsWritePaths ==
    {PathTraversal, FileA, PathEtc, PathOptB, PathSubB, PathUnderA, PathDot, <<BadByte>>}
FsWriteData == {<<"x">>, <<"y", "z">>, <<BadByte>>}

\* the file system at load time, and the one in which each plugin has
\* written a.txt into its data directory
FsWriteFiles ==
    LET init == InitialFiles(HomeDir)
        keys == {FsKey(PathJoin(data_dir_for(HomeDir, p), FileA)) : p \in Plugins}
    IN {init, [k \in DOMAIN init \cup keys |-> IF k \in keys THEN ContentA ELSE init[k]]}

\* the guest's memory at the call: the path at ptr, the data at DataOff
FsWriteMemory(req) ==
    GuestBytes(GuestBytes(InitialMemory, req.ptr, req.path), DataOff, req.data)

InitFsWrite ==
    /\ home = HomeDir
    /\ onPath = {}
    /\ adapters = [p \in Plugins |-> LoadedAdapter(home, p)]
    /\ fsys \in FsWriteFiles
    /\ workers = <<>>
    /\ hostcall = <<>>
    /\ vres = Pending
    /\ \E p \in Plugins, path \in FsWritePaths, ptr \in Pointers, data \in FsWriteData,
          exports \in {AllExports, AllExports \ {"memory"}} :
            vreq = [kind |-> "fs_write", plugin |-> p, path |-> path, ptr |-> ptr,
                    data |-> data, exports |-> exports]

\* the guest calls host_fs_write(ptr, len, DataOff, dlen)
ApplyFsWrite ==
    /\ vreq.kind = "fs_write"
    /\ vres = Pending
    /\ LET r == fs_write_impl(home, adapters[vreq.plugin].host_state, vreq.exports,
                              fsys, FsWriteMemory(vreq), vreq.ptr, Len(vreq.path),
                              DataOff, Len(vreq.data))
       IN /\ vres' = [ret |-> r.ret, effects |-> r.effects]
          /\ fsys' = r.files
    /\ UNCHANGED <<home, onPath, vreq, adapters, workers, hostcall>>

NextFsWrite == ApplyFsWrite

SpecFsWrite == InitFsWrite /\ [][NextFsWrite]_vars

-----------------------------------------------------------------------------
(* The host functions that return a buffer, each on its own: one call of a *)
(* loaded plugin, from every request, outcome of the operation and answer  *)
(* of the guest's allocate                                                 *)

BufferFns == {"host_exec", "host_fs_read", "host_http_get"}

\* what the operation itself can give: Command::output, read_to_string (the
\* file system decides) and ureq's call
OperationOutcomes(fn) ==
    IF fn = "host_exec" THEN ProcOutcomes
    ELSE IF fn = "host_http_get" THEN HttpOutcomes
    ELSE {[ok |-> TRUE]}

RequestTexts(fn) ==
    IF fn = "host_exec" THEN ExecRequests
    ELSE IF fn = "host_http_get" THEN Urls
    ELSE ReadPaths

\* the guest's memory at the call: the request at ptr
RequestMemory(req) == GuestBytes(InitialMemory, req.ptr, req.text)

InitHostFn ==
    /\ home = HomeDir
    /\ onPath = {CmdF}
    /\ adapters = [p \in Plugins |-> LoadedAdapter(home, p)]
    /\ fsys = InitialFiles(home)
    /\ workers = <<>>
    /\ hostcall = <<>>
    /\ vres = Pending
    /\ \E fn \in BufferFns, p \in Plugins, ptr \in Pointers, alloc \in AllocResults,
          exports \in {AllExports, AllExports \ {"allocate"}, AllExports \ {"memory"}} :
            \E text \in RequestTexts(fn), outcome \in OperationOutcomes(fn) :
                vreq = [kind |-> fn, plugin |-> p, text |-> text, ptr |-> ptr,
                        outcome |-> outcome, alloc |-> alloc, exports |-> exports]

\* what the guest gets and what the call left behind
HostFnResult(r) ==
    [ret |-> r.ret, effects |-> r.effects, mem |-> r.mem,
     invoked |-> IF "invoked" \in DOMAIN r THEN r.invoked ELSE <<>>]

\* the guest calls host_exec(ptr, len)
ApplyHostExec ==
    /\ vreq.kind = "host_exec"
    /\ vres = Pending
    /\ vres' = HostFnResult(exec_impl(onPath, adapters[vreq.plugin].host_state,
                                      vreq.exports, fsys, RequestMemory(vreq), vreq.ptr,
                                      Len(vreq.text), vreq.outcome, vreq.alloc))
    /\ UNCHANGED <<home, onPath, vreq, adapters, fsys, workers, hostcall>>

\* the guest calls host_fs_read(ptr, len)
ApplyHostFsRead ==
    /\ vreq.kind = "host_fs_read"
    /\ vres = Pending
    /\ vres' = HostFnResult(fs_read_impl(home, adapters[vreq.plugin].host_state,
                                         vreq.exports, fsys, RequestMemory(vreq),
                                         vreq.ptr, Len(vreq.text), vreq.alloc))
    /\ UNCHANGED <<home, onPath, vreq, adapters, fsys, workers, hostcall>>

\* the guest calls host_http_get(ptr, len)
ApplyHostHttpGet ==
    /\ vreq.kind = "host_http_get"
    /\ vres = Pending
    /\ vres' = HostFnResult(http_get_impl(adapters[vreq.plugin].host_state, vreq.exports,
                                          fsys, RequestMemory(vreq), vreq.ptr,
                                          Len(vreq.text), vreq.outcome, vreq.alloc))
    /\ UNCHANGED <<home, onPath, vreq, adapters, fsys, workers, hostcall>>

NextHostFn ==
    \/ ApplyHostExec
    \/ ApplyHostFsRead
    \/ ApplyHostHttpGet

SpecHostFn == InitHostFn /\ [][NextHostFn]_vars

-----------------------------------------------------------------------------
(* Two workers running calls concurrently, into the same plugin or into    *)
(* two plugins, sharing the file system                                    *)

InitConc == InitWorld({"w1", "w2"})

ConcStartNoArgs == \E w \in Workers, p \in Plugins : CallNoArgs(w, p, OpSync)
ConcStartWithJson ==
    \E w \in Workers, p \in Plugins : CallWithJson(w, p, OpListInstalled, 0, 0)
ConcFsWrite == \E w \in Workers : HostFsWrite(w, FileA, 0, <<"x">>)
ConcFsRead == \E w \in Workers, alloc \in {0, AllocTrap} : HostFsRead(w, FileA, 0, alloc)
ConcStore == \E w \in Workers : GuestStore(w, <<"z">>, DataOff)
ConcReturn ==
    \E w \in Workers, rc \in {<<NullFat, <<>> >>, <<FatPtr(0, 2), JsonEmptyList>>} :
        GuestReturn(w, rc[1], rc[2])
ConcTrap == \E w \in Workers : GuestTrap(w)
ConcOutOfFuel == \E w \in Workers : GuestOutOfFuel(w)

NextConc ==
    \/ ConcStartNoArgs
    \/ ConcStartWithJson
    \/ ConcFsWrite
    \/ ConcFsRead
    \/ ConcStore
    \/ ConcReturn
    \/ ConcTrap
    \/ ConcOutOfFuel

SpecConc == InitConc /\ [][NextConc]_vars

-----------------------------------------------------------------------------
(* manifest.rs: plugin discovery.  A node of the disk is nothing, a file   *)
(* (with the document it holds, for a manifest) or a directory (with its   *)
(* entries by name).                                                       *)

\* most entries a scanned directory holds
MaxEntries == 2

NoNode == [kind |-> "none"]
FileNode(content) == [kind |-> "file", content |-> content]
DirOf(entries) == [kind |-> "dir", entries |-> entries]

ManifestToml == <<"m", "a", "n", "i", "f", "e", "s", "t", ".", "t", "o", "m", "l">>
PluginWasm == <<"p", "l", "u", "g", "i", "n", ".", "w", "a", "s", "m">>

\* the entry name of a directory node, or nothing
Entry(node, name) ==
    IF node.kind = "dir" /\ name \in DOMAIN node.entries THEN node.entries[name] ELSE NoNode

\* plugin_search_paths
plugin_search_paths(h) ==
    (IF h # NoHome
     THEN <<PathJoin(h, <<".", "l", "o", "c", "a", "l", "/", "s", "h", "a", "r", "e", "/",
                         "a", "e", "r", "i", "s", "/", "p", "l", "u", "g", "i", "n", "s">>)>>
     ELSE <<>>)
    \o << <<"/", "u", "s", "r", "/", "l", "o", "c", "a", "l", "/", "l", "i", "b", "/",
            "a", "e", "r", "i", "s", "/", "p", "l", "u", "g", "i", "n", "s">>,
          <<".", "/", "p", "l", "u", "g", "i", "n", "s">> >>

\* A faulty manifest loader, which the properties of discovery must tell
\* from the real one: the identity fields are not checked for emptiness
load_manifest_lenient(node) ==
    IF node.kind # "file" THEN Err("read", <<>>)
    ELSE IF ~node.content.toml \/ {"id", "name", "version"} \ DOMAIN node.content # {}
    THEN Err("parse", <<>>)
    ELSE Ok(node.content)

\* load_manifest on the node at the manifest's path: read_to_string, then
\* toml::from_str into PluginManifest (adapter.id, adapter.name and
\* adapter.version are required keys), then the two emptiness checks
load_manifest(node) ==
    IF node.kind # "file" THEN Err("read", <<>>)
    ELSE IF ~node.content.toml \/ {"id", "name", "version"} \ DOMAIN node.content # {}
    THEN Err("parse", <<>>)
    ELSE IF node.content.id = <<>> THEN Err("missing_id", <<>>)
    ELSE IF node.content.name = <<>> THEN Err("missing_name", <<>>)
    ELSE Ok(node.content)

\* the body of the loop over the entries of one search directory, the
\* entries coming in the order names
RECURSIVE ScanEntries(_, _, _)
ScanEntries(search_dir, node, names) ==
    IF names = <<>> THEN <<>>
    ELSE LET plugin_dir == Entry(node, Head(names))
             rest == ScanEntries(search_dir, node, Tail(names))
             manifest == load_manifest(Entry(plugin_dir, ManifestToml))
         IN IF plugin_dir.kind # "dir" THEN rest
            ELSE IF Entry(plugin_dir, ManifestToml).kind = "none"
                    \/ Entry(plugin_dir, PluginWasm).kind = "none" THEN rest
            ELSE IF manifest.ok
            THEN <<[dir |-> PathJoin(search_dir, Head(names)), manifest |-> manifest.val]>>
                 \o rest
            ELSE rest

\* discover_plugins: the loop over the search paths; read_dir hands out the
\* entries of a directory in the order given by order
RECURSIVE discover_plugins(_, _, _)
discover_plugins(paths, disk, order) ==
    IF paths = <<>> THEN <<>>
    ELSE LET search_dir == Head(paths)
             node == disk[search_dir]
             rest == discover_plugins(Tail(paths), disk, order)
         IN IF node.kind # "dir" THEN rest
            ELSE ScanEntries(search_dir, node,
                             SelectSeq(order, LAMBDA n : n \in DOMAIN node.entries)) \o rest

-----------------------------------------------------------------------------
(* Discovery applied to enumerated disks *)

Names == {<<"a">>, <<"b">>, <<"c">>, <<"d">>}
EntryNames == {n \in Names : \E i \in 1..MaxEntries : n = <<"a", "b", "c", "d">>[i]}

ManifestDocs ==
    {[toml |-> FALSE],
     [toml |-> TRUE, id |-> <<"p">>, name |-> <<"n">>, version |-> <<"1">>],
     [toml |-> TRUE, id |-> <<>>, name |-> <<"n">>, version |-> <<"1">>],
     [toml |-> TRUE, id |-> <<"p">>, name |-> <<>>, version |-> <<"1">>],
     [toml |-> TRUE, id |-> <<"p">>, name |-> <<"n">>]}

\* what a search directory can hold under a name: a file, or a directory
\* with or without a manifest (a file or a directory of that name) and with
\* or without a module (a file or a directory of that name)
PluginDirs ==
    {DirOf([n \in ms \cup ws |-> IF n = ManifestToml THEN m ELSE w]) :
        ms \in {{}, {ManifestToml}}, ws \in {{}, {PluginWasm}},
        m \in {FileNode(d) : d \in ManifestDocs} \cup {DirOf(<<>>)},
        w \in {FileNode(<<>>), DirOf(<<>>)}}
EntryNodes == {FileNode(<<>>)} \cup PluginDirs

CompletePlugin ==
    DirOf([n \in {ManifestToml, PluginWasm} |->
              IF n = ManifestToml
              THEN FileNode([toml |-> TRUE, id |-> <<"q">>, name |-> <<"n">>,
                             version |-> <<"1">>])
              ELSE FileNode(<<>>)])

\* the search directories beside the one whose entries are enumerated
SideNodes == {NoNode, FileNode(<<>>), DirOf([n \in {<<"c">>} |-> CompletePlugin])}

\* every sequence that holds each element of S once
Orders(S) ==
    {f \in [1..Cardinality(S) -> S] : \A i, j \in 1..Cardinality(S) : i # j => f[i] # f[j]}

InitDiscover ==
    /\ home \in Homes
    /\ onPath = {}
    /\ adapters = <<>>
    /\ fsys = <<>>
    /\ workers = <<>>
    /\ hostcall = <<>>
    /\ vres = Pending
    /\ \E names \in SUBSET EntryNames, side1, side2 \in SideNodes :
         \E entries \in [names -> EntryNodes] :
            LET paths == plugin_search_paths(HomeDir)
            IN vreq = [kind |-> "discover",
                       disk |-> [p \in {paths[i] : i \in 1..3} |->
                                   IF p = paths[1] THEN side1
                                   ELSE IF p = paths[2] THEN DirOf(entries)
                                   ELSE side2]]

ApplyDiscover ==
    /\ vreq.kind = "discover"
    /\ vres = Pending
    /\ \E order \in Orders(EntryNames \cup {<<"c">>}) :
          vres' = Ok(discover_plugins(plugin_search_paths(home), vreq.disk, order))
    /\ UNCHANGED <<home, onPath, vreq, adapters, fsys, workers, hostcall>>

SpecDiscover == InitDiscover /\ [][ApplyDiscover]_vars

-----------------------------------------------------------------------------
(* The memory bridge applied to enumerated fat pointers and strings *)

\* longest string written and read back
MaxStr == 3

\* 16-bit limbs at and around the sign bit and the ends of the range
LimbValues == {0, 1, 32767, 32768, 65535}
Words == LimbValues \X LimbValues

\* memories before the write: fresh, or holding bytes of an earlier use
UsedMemory == [i \in 1..MemSize |-> IF i % 2 = 0 THEN BadByte ELSE ContByte]

\* a memory of valid text, the two-byte character at its end
TextMemory ==
    [i \in 1..MemSize |->
        IF i = MemSize - 1 THEN LeadByte ELSE IF i = MemSize THEN ContByte ELSE "a"]

\* the i32 arguments a guest hands to a host function as offset and length
GuestI32 == {0, 1, 2, MemSize - 2, MemSize - 1, MemSize, MemSize + 1,
             65536, 2147483647, -1, -2, -2147483647}

\* a memory that holds text at offset 0 and at offset DataOff
JsonMemory(text) == CopyInto(CopyInto(InitialMemory, 0, text), DataOff, text)

\* the halves of the fat pointers an export returns
ResultWords ==
    {<<0, 0>>, <<0, 1>>, <<0, 2>>, <<0, 4>>, <<0, DataOff>>, <<0, MemSize>>,
     <<1, 0>>, <<32768, 0>>, <<65535, 65535>>}

InitMemory ==
    /\ home = HomeDir
    /\ onPath = {}
    /\ adapters = <<>>
    /\ fsys = <<>>
    /\ workers = <<>>
    /\ hostcall = <<>>
    /\ vres = Pending
    /\ \/ \E w_ptr, w_len \in Words : vreq = [kind |-> "fat", ptr |-> w_ptr, len |-> w_len]
       \/ \E s \in StringsUpTo({"a", Nul, TwoByteChar}, MaxStr),
             alloc \in (0..MemSize) \cup {AllocTrap}, mem \in {InitialMemory, UsedMemory} :
             vreq = [kind |-> "string", s |-> s, alloc |-> alloc, mem |-> mem]
       \/ \E ptr, len \in GuestI32, mem \in {InitialMemory, UsedMemory, TextMemory} :
             vreq = [kind |-> "read", ptr |-> ptr, len |-> len, mem |-> mem]
       \/ \E ptr, len \in ResultWords, export \in {OpSync, OpListInstalled},
             mem \in {UsedMemory, JsonMemory(JsonEmptyList), JsonMemory(JsonNull)} :
             vreq = [kind |-> "result", export |-> export, ptr |-> ptr, len |-> len,
                     mem |-> mem]

\* a host function encodes a fat pointer, the guest or the host decodes it
ApplyFatPtr ==
    /\ vreq.kind = "fat"
    /\ vres = Pending
    /\ LET val == encode_fat_ptr(vreq.ptr, vreq.len)
       IN vres' = [ok |-> TRUE, fat |-> val, val |-> decode_fat_ptr(val)]
    /\ UNCHANGED <<home, onPath, vreq, adapters, fsys, workers, hostcall>>

\* write_string(s), then read_string at what it returned, in the same store
ApplyWriteRead ==
    /\ vreq.kind = "string"
    /\ vres = Pending
    /\ LET wr == write_string_at(vreq.mem, vreq.alloc, vreq.s)
       IN vres' = IF wr.ok
                  THEN [ok |-> TRUE, ptr |-> wr.ptr, len |-> wr.len,
                        back |-> read_string(wr.mem, U32(wr.ptr), U32(wr.len))]
                  ELSE [ok |-> FALSE, err |-> wr.err]
    /\ UNCHANGED <<home, onPath, vreq, adapters, fsys, workers, hostcall>>

\* a host function reads the string the guest names: ptr as u32, len as
\* u32, read_string
ApplyRead ==
    /\ vreq.kind = "read"
    /\ vres = Pending
    /\ vres' = read_string(vreq.mem, as_u32(vreq.ptr), as_u32(vreq.len))
    /\ UNCHANGED <<home, onPath, vreq, adapters, fsys, workers, hostcall>>

\* the host takes the result of an export: read_result_json on the fat
\* pointer the export returned
ApplyReadResult ==
    /\ vreq.kind = "result"
    /\ vres = Pending
    /\ vres' = read_result_json(vreq.export, vreq.mem, encode_fat_ptr(vreq.ptr, vreq.len))
    /\ UNCHANGED <<home, onPath, vreq, adapters, fsys, workers, hostcall>>

NextMemory == ApplyFatPtr \/ ApplyWriteRead \/ ApplyRead \/ ApplyReadResult

SpecMemory == InitMemory /\ [][NextMemory]_vars

-----------------------------------------------------------------------------
(* adapter.rs: WasmAdapter::load, the bootstrap of one plugin directory *)

Loader == "loader"

\* the locals of load() before its first statement; info_json is the text
\* adapter_info gave, cap_json what read_result_json made of the result of
\* adapter_capabilities, calls the export calls made so far. load() is an
\* ordinary function: its body, the calls into the guest included, runs on
\* the thread that called it
LoaderStart ==
    [pc |-> "start", export |-> "none", store |-> NoStore, outcome |-> NoOutcome,
     thread |-> RequestThread,
     manifest |-> None, exports |-> {}, info_json |-> None, plugin_info |-> None,
     cap_json |-> None, calls |-> <<>>]

\* the temporary store of load(): Store::new on a clone of the host state,
\* set_fuel, instantiate
LoadStore(host_state) ==
    [fuel |-> FUEL_LIMIT, mem |-> InitialMemory, data |-> host_state]

\* an error return of load(): the locals, the store among them, are dropped
LoadFails(rec, msg) ==
    [rec EXCEPT !.pc = "done", !.store = NoStore, !.outcome = PluginError(msg)]

\* func.call(&mut store, ()) on the export: the guest starts to run in the
\* store of load(); calls records the export and the store it was given
LoadCalls(rec, export) ==
    [rec EXCEPT !.pc = "guest", !.export = export,
                !.calls = Append(@, [export |-> export, fuel |-> rec.store.fuel,
                                     mem |-> rec.store.mem,
                                     thread |-> rec.thread])]

\* load() from the lookup of adapter_info on
LoadCallInfo(rec) ==
    IF OpInfo \notin rec.exports THEN LoadFails(rec, "missing_adapter_info")
    ELSE LoadCalls(rec, OpInfo)

\* A faulty end of load(), which the identity used for enforcement must tell
\* from the real one: the capability state is rebuilt under the id that
\* adapter_info gave
LoadDoneRenamed(rec, capabilities) ==
    LET manifest == rec.manifest.val
        plugin_info == rec.plugin_info.val
        id == unwrap_or(plugin_info.id, manifest.id)
        adapter_info ==
            [id |-> id,
             name |-> unwrap_or(plugin_info.name, manifest.name),
             version |-> unwrap_or(plugin_info.version, manifest.version),
             capabilities |-> capabilities,
             enabled |-> TRUE,
             is_builtin |-> FALSE,
             description |-> unwrap_or(plugin_info.description, manifest.description),
             icon |-> plugin_info.icon]
    IN [rec EXCEPT !.pc = "done", !.store = NoStore,
                   !.outcome = OkOutcome([host_state |->
                                              HostStateNew(home, id, manifest.permissions),
                                          info |-> adapter_info,
                                          capabilities |-> capabilities])]

\* the AdapterInfo and the WasmAdapter that load() returns
LoadDone(rec, capabilities) ==
    LET manifest == rec.manifest.val
        plugin_info == rec.plugin_info.val
        adapter_info ==
            [id |-> unwrap_or(plugin_info.id, manifest.id),
             name |-> unwrap_or(plugin_info.name, manifest.name),
             version |-> unwrap_or(plugin_info.version, manifest.version),
             capabilities |-> capabilities,
             enabled |-> TRUE,
             is_builtin |-> FALSE,
             description |-> unwrap_or(plugin_info.description, manifest.description),
             icon |-> plugin_info.icon]
    IN [rec EXCEPT !.pc = "done", !.store = NoStore,
                   !.outcome = OkOutcome([host_state |-> rec.store.data,
                                          info |-> adapter_info,
                                          capabilities |-> capabilities])]

\* load() up to its first call into the guest
LoadBegin ==
    /\ workers[Loader].pc = "start"
    /\ LET rec == workers[Loader]
           manifest == load_manifest(Entry(vreq.dir, ManifestToml))
           wasm == Entry(vreq.dir, PluginWasm)
           host_state == HostStateNew(home, manifest.val.id, manifest.val.permissions)
           made == FsCreateDirAll(fsys, host_state.data_dir)
           started == [rec EXCEPT !.manifest = Some(manifest.val),
                                  !.exports = wasm.content.exports,
                                  !.store = LoadStore(host_state)]
           early == IF ~manifest.ok THEN manifest.err
                    ELSE IF wasm.kind # "file" THEN "read_wasm"
                    ELSE IF ~wasm.content.wasm THEN "compile"
                    ELSE IF ~made.ok THEN "create_data_dir"
                    ELSE "none"
       IN /\ workers' = [workers EXCEPT ![Loader] =
                            IF early # "none" THEN LoadFails(rec, early)
                            ELSE IF OpInit \in started.exports
                            THEN LoadCalls(started, OpInit)
                            ELSE LoadCallInfo(started)]
          /\ fsys' = IF early = "none" THEN made.val ELSE fsys
    /\ UNCHANGED <<home, onPath, vreq, vres, adapters, hostcall>>

\* the guest executes and stores s at ptr
LoadGuestStore(s, ptr) ==
    /\ workers[Loader].pc = "guest"
    /\ workers[Loader].store.fuel >= StepCost
    /\ ptr + Len(s) <= MemSize
    /\ workers' = [workers EXCEPT ![Loader].store =
                      AfterStep(@, CopyInto(workers[Loader].store.mem, ptr, s))]
    /\ UNCHANGED <<home, onPath, vreq, vres, adapters, fsys, hostcall>>

\* the guest traps in a bootstrap export: each of the three calls is
\* followed by map_err(..)?
LoadGuestTrap ==
    /\ workers[Loader].pc = "guest"
    /\ workers[Loader].store.fuel >= StepCost
    /\ workers' = [workers EXCEPT ![Loader] = LoadFails(@, "failed_trap")]
    /\ UNCHANGED <<home, onPath, vreq, vres, adapters, fsys, hostcall>>

\* the guest goes on executing with the budget of load() used up
LoadGuestOutOfFuel ==
    /\ workers[Loader].pc = "guest"
    /\ workers[Loader].store.fuel < StepCost
    /\ workers' = [workers EXCEPT ![Loader] = LoadFails(@, "failed_out_of_fuel")]
    /\ UNCHANGED <<home, onPath, vreq, vres, adapters, fsys, hostcall>>

\* adapter_init returns: load() goes on to adapter_info in the same store
LoadInitReturn ==
    /\ workers[Loader].pc = "guest"
    /\ workers[Loader].export = OpInit
    /\ workers' = [workers EXCEPT ![Loader] = LoadCallInfo(@)]
    /\ UNCHANGED <<home, onPath, vreq, vres, adapters, fsys, hostcall>>

\* adapter_info returns fat, the guest having put s at its offset: the
\* memory export, read_result_json into PluginInfo, then the lookup of
\* adapter_capabilities
LoadInfoReturn(fat, s) ==
    /\ workers[Loader].pc = "guest"
    /\ workers[Loader].export = OpInfo
    /\ LET rec == workers[Loader]
           mem == GuestBytes(rec.store.mem, FromU32(decode_fat_ptr(fat)[1]), s)
           res == read_result_json(OpInfo, mem, fat)
           read == [rec EXCEPT !.store.mem = mem, !.info_json = Some(s),
                               !.plugin_info = Some(res.val)]
       IN workers' = [workers EXCEPT ![Loader] =
                         IF "memory" \notin rec.exports THEN LoadFails(rec, "missing_memory")
                         ELSE IF ~res.ok THEN LoadFails(rec, res.err)
                         ELSE IF OpCapabilities \in rec.exports
                         THEN LoadCalls(read, OpCapabilities)
                         ELSE LoadDone(read, rec.manifest.val.capabilities)]
    /\ UNCHANGED <<home, onPath, vreq, vres, adapters, fsys, hostcall>>

\* adapter_capabilities returns fat, the guest having put s at its offset:
\* read_result_json into Capabilities, or the manifest's capabilities
LoadCapabilitiesReturn(fat, s) ==
    /\ workers[Loader].pc = "guest"
    /\ workers[Loader].export = OpCapabilities
    /\ LET rec == workers[Loader]
           mem == GuestBytes(rec.store.mem, FromU32(decode_fat_ptr(fat)[1]), s)
           res == read_result_json(OpCapabilities, mem, fat)
       IN workers' = [workers EXCEPT ![Loader] =
                         LoadDone([rec EXCEPT !.store.mem = mem, !.cap_json = Some(res)],
                                  IF res.ok THEN res.val
                                  ELSE rec.manifest.val.capabilities)]
    /\ UNCHANGED <<home, onPath, vreq, vres, adapters, fsys, hostcall>>

\* JSON texts as the guests write them
StringValue(v) == <<Quote>> \o v \o <<Quote>>
Member(key, value) == StringValue(key) \o <<":">> \o value
RECURSIVE JoinMembers(_)
JoinMembers(ms) ==
    IF ms = <<>> THEN <<>>
    ELSE IF Len(ms) = 1 THEN ms[1]
    ELSE ms[1] \o <<",">> \o JoinMembers(Tail(ms))
ObjectText(ms) == <<"{">> \o JoinMembers(ms) \o <<"}">>

\* the identity fields, what the manifest of the model says for them and
\* what the guest says when it gives them as strings
InfoKeys == <<KeyId, KeyName, KeyVersion, KeyDescription>>
ManifestValues == << <<"p">>, <<"n">>, <<"1">>, <<"d">> >>
GuestValues == << <<"I">>, <<"N">>, <<"2">>, <<"D">> >>

\* the adapter_info result in which field i is absent, null or a string
\* as choice[i] says
InfoText(choice) ==
    LET present == SelectSeq(<<1, 2, 3, 4>>, LAMBDA i : choice[i] # "absent")
    IN ObjectText([j \in 1..Len(present) |->
                      Member(InfoKeys[present[j]],
                             IF choice[present[j]] = "null" THEN JsonNull
                             ELSE StringValue(GuestValues[present[j]]))])

InfoTexts ==
    {InfoText(c) : c \in [1..4 -> {"absent", "null", "string"}]}
    \cup {ObjectText(<<Member(KeyId, <<"1">>)>>),
          ObjectText(<<Member(KeyId, StringValue(<<"I">>)),
                       Member(KeyId, StringValue(<<"J">>))>>),
          ObjectText(<<Member(KeyName, StringValue(<<>>)),
                       Member(KeyIcon, StringValue(<<"c">>)),
                       Member(<<"x">>, JsonTrue)>>),
          <<"{", Quote, "i", "d">>,
          <<BadByte>>}

CapabilitiesTexts ==
    {ObjectText(<<>>),
     ObjectText(<<Member(KeyCanSync, JsonTrue)>>),
     ObjectText(<<Member(KeyCanSearch, JsonFalse), Member(KeyCanSync, JsonTrue)>>),
     ObjectText(<<Member(KeyCanSearch, JsonNull)>>),
     <<"{", Quote, "c">>}

\* what an export returns: a text at offset 0, the null pointer, or a
\* region beyond the memory
ResultChoices(texts) ==
    {<<FatPtr(0, Len(t)), t>> : t \in texts}
    \cup {<<NullFat, <<>> >>, <<FatPtr(MemSize, 1), <<>> >>}

\* the plugin directories given to load(): a manifest and a module with
\* any of the optional exports, or a manifest or module that does not load
LoadManifest ==
    [toml |-> TRUE, id |-> ManifestValues[1], name |-> ManifestValues[2],
     version |-> ManifestValues[3], description |-> ManifestValues[4],
     capabilities |-> Capabilities(TRUE, FALSE),
     permissions |-> Permissions(FALSE, <<>>, <<>>)]
LoadModules ==
    {FileNode([wasm |-> TRUE, exports |-> es]) :
        es \in SUBSET {"memory", OpInit, OpInfo, OpCapabilities}}
    \cup {FileNode([wasm |-> FALSE, exports |-> {}])}
LoadDirs ==
    {DirOf([n \in {ManifestToml, PluginWasm} |->
               IF n = ManifestToml THEN FileNode(LoadManifest) ELSE w]) : w \in LoadModules}
    \cup {DirOf([n \in {ManifestToml} |-> FileNode(LoadManifest)]),
          DirOf([n \in {PluginWasm} |-> FileNode([wasm |-> TRUE, exports |-> {}])])}

\* the file systems load() finds: the data directory can be made, or a
\* file is where its parent would be
LoadFiles ==
    {[k \in {<<>>} |-> DirNode],
     [k \in {<<>>, FsKey(PluginDataTmp)} |-> IF k = <<>> THEN DirNode ELSE ContentA]}

InitLoad ==
    /\ home \in {HomeDir, NoHome}
    /\ onPath = {}
    /\ adapters = <<>>
    /\ fsys \in LoadFiles
    /\ hostcall = <<>>
    /\ vres = Pending
    /\ workers = [w \in {Loader} |-> LoaderStart]
    /\ \E dir \in LoadDirs : vreq = [kind |-> "load", dir |-> dir]

LoadStoreStep == \E ptr \in {0, DataOff} : LoadGuestStore(<<"z">>, ptr)
LoadInfoReturns == \E rc \in ResultChoices(InfoTexts) : LoadInfoReturn(rc[1], rc[2])
LoadCapabilitiesReturns ==
    \E rc \in ResultChoices(CapabilitiesTexts) : LoadCapabilitiesReturn(rc[1], rc[2])

NextLoad ==
    \/ LoadBegin
    \/ LoadStoreStep
    \/ LoadGuestTrap
    \/ LoadGuestOutOfFuel
    \/ LoadInitReturn
    \/ LoadInfoReturns
    \/ LoadCapabilitiesReturns

SpecLoad == InitLoad /\ [][NextLoad]_vars

-----------------------------------------------------------------------------
(* host.rs, manifest.rs: the data directories of two plugins, from the ids *)
(* of their manifests, and a path asked of the first plugin's validator    *)

\* the ids a plugin.toml can give: none, plain names, a name with a
\* separator, the dot names and an absolute path
ManifestIds ==
    {<<>>, <<"a">>, <<"b">>, <<"a", "/", "b">>, <<".">>, <<".", ".">>, <<"/", "e">>}

\* the manifest with the id given and no permissions
ManifestWithId(id) ==
    FileNode([toml |-> TRUE, id |-> id, name |-> <<"n">>, version |-> <<"1">>,
              description |-> <<>>, capabilities |-> Capabilities(FALSE, FALSE),
              permissions |-> Permissions(FALSE, <<>>, <<>>)])

\* the paths asked of validate_path
AskedPaths == {<<"x">>, <<"/", "e", "/", "x">>, <<"/", "h", "/", "x">>}

InitDataDir ==
    /\ home \in Homes
    /\ onPath = {}
    /\ adapters = <<>>
    /\ fsys = <<>>
    /\ workers = <<>>
    /\ hostcall = <<>>
    /\ vres = Pending
    /\ \E id \in ManifestIds, other \in ManifestIds, path \in AskedPaths :
          vreq = [kind |-> "data_dir", ids |-> <<id, other>>, path |-> path]

\* load_manifest on both manifests and HostState::new for those accepted,
\* then validate_path of the first plugin on the path
ApplyDataDir ==
    /\ vreq.kind = "data_dir"
    /\ vres = Pending
    /\ LET manifest == [i \in 1..2 |-> load_manifest(ManifestWithId(vreq.ids[i]))]
           state == [i \in 1..2 |->
                        IF manifest[i].ok
                        THEN Some(HostStateNew(home, manifest[i].val.id,
                                               manifest[i].val.permissions))
                        ELSE None]
       IN vres' = [states |-> state,
                   granted |-> IF state[1].some
                               THEN validate_path(home, state[1].val, vreq.path)
                               ELSE Err("not_loaded", <<>>)]
    /\ UNCHANGED <<home, onPath, vreq, adapters, fsys, workers, hostcall>>

NextDataDir == ApplyDataDir

SpecDataDir == InitDataDir /\ [][NextDataDir]_vars

-----------------------------------------------------------------------------
(* core/adapter_manager.rs: the aggregate operations of AdapterManager *)

\* most adapters registered with the manager
MaxAdapters == 2

AdapterPool == <<"a", "b", "c">>
AdapterIds == {AdapterPool[i] : i \in 1..MaxAdapters}
UnknownId == "x"

AggregateOps == {"search", "list_installed", "list_updates"}

\* what a call into an adapter gives: packages of that adapter, or an error
PackagesOf(id) == {<<>>, <<[adapter |-> id, name |-> "n"]>>,
                   <<[adapter |-> id, name |-> "n"], [adapter |-> id, name |-> "m"]>>}
AdapterOutcomes(id) ==
    {Ok(pkgs) : pkgs \in PackagesOf(id)}
    \cup {Err("PluginError", id), Err("NotSupported", id), Err("Other", id)}

\* A faulty loop body, which the aggregates must be told from: an error of
\* one adapter discards what the adapters before it gave
ExtendOrReset(results, res) == IF res.ok THEN results \o res.val ELSE <<>>

\* the body of the loop of search, list_installed and list_updates:
\* Ok(pkgs) => results.extend(pkgs), Err(e) => log::warn!
ExtendOrWarn(results, res) == IF res.ok THEN results \o res.val ELSE results

\* AdapterManager::is_enabled
is_enabled(disabled, id) == id \notin disabled

\* the adapters an aggregate asks, in order: for search the enabled ones
\* that can search, all of them in the order of the map or those named by
\* sources in the order of sources; for the lists the enabled ones
AskedAdapters(req, order) ==
    LET searches(id) == is_enabled(req.disabled, id) /\ req.can_search[id]
    IN IF req.op = "search"
       THEN IF req.sources = <<>> THEN SelectSeq(order, searches)
            ELSE SelectSeq(SelectSeq(req.sources, LAMBDA id : id \in req.registered),
                           searches)
       ELSE SelectSeq(order, LAMBDA id : is_enabled(req.disabled, id))

SourceLists ==
    {<<>>, <<"a">>, <<"b", "a">>, <<"a", "a">>, <<UnknownId, "b">>}

InitAggregate ==
    /\ home = HomeDir
    /\ onPath = {}
    /\ adapters = <<>>
    /\ fsys = <<>>
    /\ workers = <<>>
    /\ hostcall = <<>>
    /\ vres = Pending
    /\ \E op \in AggregateOps, registered \in SUBSET AdapterIds,
          disabled \in SUBSET (AdapterIds \cup {UnknownId}), b_searches \in BOOLEAN,
          sources \in SourceLists :
          /\ op # "search" => (sources = <<>> /\ b_searches)
          /\ disabled \subseteq registered \cup {UnknownId}
          /\ vreq = [kind |-> "aggregate", op |-> op, registered |-> registered,
                     disabled |-> disabled,
                     can_search |-> [id \in registered |-> id # "b" \/ b_searches],
                     sources |-> sources]

\* the aggregate up to its first call into an adapter: the adapters to ask
\* are collected, the values of the map coming in any order
AggregateBegin ==
    /\ vreq.kind = "aggregate"
    /\ vres = Pending
    /\ \E order \in Orders(vreq.registered) :
          vres' = [ok |-> FALSE, pc |-> "loop", queue |-> AskedAdapters(vreq, order),
                   results |-> <<>>, called |-> <<>>]
    /\ UNCHANGED <<home, onPath, vreq, adapters, fsys, workers, hostcall>>

\* one turn of the loop: the call into the next adapter is awaited and its
\* outcome matched; called keeps the calls made and what they gave
AggregateCall ==
    /\ vres # Pending
    /\ vres.pc = "loop"
    /\ vres.queue # <<>>
    /\ \E res \in AdapterOutcomes(Head(vres.queue)) :
          vres' = [vres EXCEPT !.queue = Tail(@),
                               !.results = ExtendOrWarn(@, res),
                               !.called = Append(@, [id |-> Head(vres.queue), res |-> res])]
    /\ UNCHANGED <<home, onPath, vreq, adapters, fsys, workers, hostcall>>

\* the loop is over: Ok(results)
AggregateReturn ==
    /\ vres # Pending
    /\ vres.pc = "loop"
    /\ vres.queue = <<>>
    /\ vres' = [vres EXCEPT !.pc = "done", !.ok = TRUE]
    /\ UNCHANGED <<home, onPath, vreq, adapters, fsys, workers, hostcall>>

NextAggregate == AggregateBegin \/ AggregateCall \/ AggregateReturn

SpecAggregate == InitAggregate /\ [][NextAggregate]_vars

-----------------------------------------------------------------------------
(* Claims about the capability validator *)

\* the path has a parent-directory segment: a whole segment equal to ".."
HasParentSegment(path) == \E i \in 1..Len(RawSegs(path)) : RawSegs(path)[i] = DotDot

\* base is a path prefix of p: the components of base are the first ones of p
IsPathPrefix(base, p) ==
    /\ Len(Components(base)) <= Len(Components(p))
    /\ \A i \in 1..Len(Components(base)) : Components(p)[i] = Components(base)[i]

\* the request resolves inside the private data directory: any relative
\* path (it is joined to the data directory), or an absolute one under it
ResolvesInside(hs, path) ==
    \/ ~IsAbsolute(path)
    \/ IsPathPrefix(hs.data_dir, path)

\* the expansions of the entries of a filesystem permission list
PermittedPrefixes(h, list) ==
    {list[i] : i \in {j \in 1..Len(list) : ~StrStartsWith(list[j], TildeSlash)}}
    \cup {PathJoin(h, SubSeq(list[i], 3, Len(list[i]))) :
            i \in {j \in 1..Len(list) : StrStartsWith(list[j], TildeSlash) /\ h # NoHome}}

SomePrefixPermits(h, hs, path) ==
    \E pre \in PermittedPrefixes(h, hs.permissions.filesystem) :
        IsPathPrefix(pre, Resolve(hs, path))

\* every reordering of a list
Reorderings(list) ==
    {[i \in 1..Len(list) |-> list[f[i]]] :
        f \in {g \in [1..Len(list) -> 1..Len(list)] :
                 \A a, b \in 1..Len(list) : a # b => g[a] # g[b]}}

\* C2: every requested path with a parent-directory segment ("..") is
\* denied, whatever else the path holds, whatever the filesystem permission
\* list is, and whether the path is absolute or relative.
C2_ParentSegmentDenied ==
    (PathDecided /\ HasParentSegment(vreq.arg)) => ~vres.ok

\* an absolute path with a ".." segment under a permitted prefix was denied
C2_Witness ==
    /\ PathDecided
    /\ HasParentSegment(vreq.arg)
    /\ IsAbsolute(vreq.arg)
    /\ SomePrefixPermits(home, vreq.hs, vreq.arg)
    /\ vres = Err("traversal", PluginP)

IsBareName(cmd) == cmd # <<>> /\ cmd \notin {Dot, DotDot} /\ \A i \in 1..Len(cmd) : cmd[i] # Sep

CommandDirs ==
    {<<"/", "u", "s", "r", "/", "b", "i", "n", "/">>, <<Sep>>, <<".", Sep>>,
     <<"/", "t", "m", "p", "/", "x", "/">>, <<"a", Sep>>}

\* C7: a bare command name and every full path with that basename get the
\* same decision and, when allowed, the same resolved absolute path.
C7_BasenameDecides ==
    (CmdDecided /\ IsBareName(vreq.arg))
        => \A dir \in CommandDirs :
              /\ validate_command(onPath, vreq.hs, dir \o vreq.arg) = vres
              /\ validate_command(onPath, vreq.hs, dir \o vreq.arg \o <<Sep>>) = vres

\* the bare name "f" was allowed under the allowlist ["f"] and resolved
C7_Witness ==
    /\ CmdDecided
    /\ vreq.arg = <<"f">>
    /\ vreq.hs.permissions.exec_commands = << <<"f">> >>
    /\ vres.ok
    /\ validate_command(onPath, vreq.hs, <<"/", "u", "s", "r", "/", "b", "i", "n", "/", "f">>) = vres

-----------------------------------------------------------------------------
(* Claims about the host function surface *)

FsFunctions == {"host_fs_read", "host_fs_write", "host_fs_exists"}

\* the value the guest gets when a file system function denies or fails
FsSentinel(fn) == IF fn = "host_fs_read" THEN NullFat ELSE I32(-1)

\* worker w took the step and the step was an invocation of one of fns
Invoked(w, fns) == workers'[w] # workers[w] /\ hostcall'[w].fn \in fns

\* the targets of the accesses of kind op an invocation made
Targets(hc, op) == {hc.effects[i].target : i \in {j \in DOMAIN hc.effects : hc.effects[j].op = op}}

\* C1: host_fs_read, host_fs_write and host_fs_exists touch the file system
\* only after validate_path accepted the requested path, and then only at the
\* validated path (and its parent directory); when the path is denied, or
\* cannot be read from guest memory, they make no access, leave the file
\* system as it is and return their sentinel: 0 from host_fs_read, -1 from
\* host_fs_write and host_fs_exists.
C1_FsGatedByValidatePath ==
    [][\A w \in Workers :
         Invoked(w, FsFunctions) =>
            LET hc == hostcall'[w]
                verdict == IF hc.arg.ok
                           THEN validate_path(home, workers[w].store.data, hc.arg.val)
                           ELSE hc.arg
            IN /\ ~verdict.ok =>
                     /\ hc.effects = <<>>
                     /\ fsys' = fsys
                     /\ hc.ret = FsSentinel(hc.fn)
               /\ verdict.ok =>
                     \A i \in DOMAIN hc.effects :
                         hc.effects[i].target \in {verdict.val, PathParent(verdict.val)}]_vars

\* a path with a parent segment was requested of host_fs_write, and denied
C1_Witness ==
    \E w \in Workers :
        /\ hostcall[w].fn = "host_fs_write"
        /\ hostcall[w].arg = Ok(PathTraversal)
        /\ hostcall[w].effects = <<>>
        /\ hostcall[w].ret = I32(-1)

\* the text after the last separator of a command
LastSegment(cmd) ==
    LET seps == {i \in DOMAIN cmd : cmd[i] = Sep}
    IN IF seps = {} THEN cmd
       ELSE SubSeq(cmd, (CHOOSE i \in seps : \A j \in seps : j <= i) + 1, Len(cmd))

\* the exec allowlist of the plugin worker w is calling into
ExecAllowlist(w) ==
    LET list == adapters[workers[w].plugin].host_state.permissions.exec_commands
    IN {list[i] : i \in DOMAIN list}

\* C5: host_exec spawns a process only if the request decodes as JSON with a
\* command field, the basename of the command is in the allowlist and that
\* basename resolves on the search path; in every other case it returns 0
\* and spawns nothing.
C5_ExecGated ==
    \A w \in Workers :
        hostcall[w].fn = "host_exec" =>
            LET hc == hostcall[w]
                req == IF hc.arg.ok THEN ParseExecRequest(hc.arg.val) ELSE hc.arg
                all == /\ req.ok
                       /\ LastSegment(req.val.command) \in ExecAllowlist(w)
                       /\ LastSegment(req.val.command) \in onPath
            IN /\ Targets(hc, "spawn") # {} => all
               /\ ~all => hc.ret = NullFat /\ hc.effects = <<>>

\* a command given by its full path was spawned, another call was refused
\* for a command outside the search path
C5_Witness ==
    \E w \in Workers :
        /\ hostcall[w].fn = "host_exec"
        /\ hostcall[w].arg = Ok(ReqTmpF)
        /\ Targets(hostcall[w], "spawn") # {}
        /\ hostcall[w].ret # NullFat

\* C6: when the manifest's network is false, host_http_get returns 0 and
\* performs no network request, whatever the URL and the guest memory.
C6_NoNetwork ==
    \A w \in Workers :
        (/\ hostcall[w].fn = "host_http_get"
         /\ ~adapters[workers[w].plugin].host_state.permissions.network)
        => hostcall[w].ret = NullFat /\ hostcall[w].effects = <<>>

\* a plugin without network permission asked for a readable URL
C6_Witness ==
    \E w \in Workers :
        /\ hostcall[w].fn = "host_http_get"
        /\ ~adapters[workers[w].plugin].host_state.permissions.network
        /\ hostcall[w].arg = Ok(UrlH)
        /\ hostcall[w].ret = NullFat

\* C8: with filesystem ["~/Downloads"] and no exec commands in the manifest,
\* host_fs_read of "~/Downloads/a.txt" gives the content of the file
\* $HOME/Downloads/a.txt whenever that file exists (and the guest's allocate
\* hands out a region that fits the response).
C8_TildeRequestReadsHomeFile ==
    \A w \in Workers :
        (/\ hostcall[w].fn = "host_fs_read"
         /\ workers[w].plugin = PluginP
         /\ hostcall[w].arg = Ok(PathTildeA)
         /\ hostcall[w].alloc = 0
         /\ FsRead(fsys, PathHomeA).ok)
        => LET json == FsReadResponseJson(FsRead(fsys, PathHomeA).val)
           IN /\ hostcall[w].ret = FatPtr(0, Len(json))
              /\ SubSeq(workers[w].store.mem, 1, Len(json)) = json

\* the memories a call can start its guest with: a fresh instantiation,
\* holding at most the call's own JSON input where allocate put it
StartMemories ==
    {InitialMemory} \cup
    {CopyInto(InitialMemory, a, ModeInputJson) : a \in 0..(MemSize - Len(ModeInputJson))}

\* the budget a call can start its guest with: FUEL_LIMIT, less what the
\* call's own allocate used when the call has an input to write
StartFuel(export) ==
    {FUEL_LIMIT} \cup (IF export \in JsonOps THEN {FUEL_LIMIT - StepCost} ELSE {})

\* C9: every operational call starts in a new execution context with the
\* memory of a fresh instantiation and the full budget FUEL_LIMIT (spent
\* only by the call itself), whatever earlier calls did; no memory content
\* and no fuel consumption carries over, and the context is gone once the
\* call has returned or failed.
C9_FreshContextPerCall ==
    [][\A w \in Workers :
         /\ (workers[w].pc = "idle" /\ workers'[w].pc = "guest") =>
               /\ workers'[w].store.fuel \in StartFuel(workers'[w].export)
               /\ workers'[w].store.mem \in StartMemories
               /\ workers'[w].store.data = adapters[workers'[w].plugin].host_state
         /\ workers'[w].pc = "idle" => workers'[w].store = NoStore]_vars

\* a call into p has just started with full budget and fresh memory, after
\* an earlier call into p wrote guest memory, burnt fuel and left a file
C9_Witness ==
    \E w \in Workers :
        /\ workers[w].pc = "guest"
        /\ workers[w].plugin = PluginP
        /\ workers[w].store.fuel = FUEL_LIMIT
        /\ workers[w].store.mem = InitialMemory
        /\ FsKey(PathJoin(data_dir_for(home, PluginP), FileA)) \in DOMAIN fsys

\* C10: calls that run at the same time, into one plugin or into several,
\* each have their own context: a step of one call (a memory write, fuel
\* consumption, a trap, running out of fuel) leaves the memory, budget and
\* outcome of every other call as they were, and the loaded adapters are
\* never changed; only the file system is shared and mutable.
C10_CallsIsolated ==
    [][/\ \A w, v \in Workers :
             (w # v /\ workers'[w] # workers[w]) =>
                 workers'[v] = workers[v] /\ hostcall'[v] = hostcall[v]
       /\ adapters' = adapters
       /\ home' = home
       /\ onPath' = onPath]_vars

\* two calls into the same plugin are running, with different memories and
\* different budgets left, and one of them has changed the file system
C10_Witness ==
    /\ \A w \in {"w1", "w2"} : workers[w].pc = "guest" /\ workers[w].plugin = PluginP
    /\ workers["w1"].store.mem # workers["w2"].store.mem
    /\ workers["w1"].store.fuel # workers["w2"].store.fuel
    /\ fsys # InitialFiles(home)

-----------------------------------------------------------------------------
(* Claims about the per-call execution model *)

OutOfFuelError == PluginError("failed_out_of_fuel")

\* C11: a call whose guest loops forever ends: every guest step consumes
\* budget, the budget never grows during a call, a guest without budget for
\* the next step cannot go on, and the call is ended with an error value
\* that leaves the worker idle and the context dropped.
C11_LoopingCallEnds ==
    /\ [][(workers["w1"].pc = "guest" /\ workers'["w1"].pc = "guest") =>
             /\ workers'["w1"].store.fuel < workers["w1"].store.fuel
             /\ workers["w1"].store.fuel >= StepCost]_vars
    /\ [](workers["w1"].outcome = OutOfFuelError =>
             workers["w1"].pc = "idle" /\ workers["w1"].store = NoStore)
    /\ (workers["w1"].pc = "guest") ~> (workers["w1"].pc = "idle")

\* a call was aborted for running out of fuel and the worker is free
C11_Witness ==
    /\ workers["w1"].pc = "idle"
    /\ workers["w1"].outcome = OutOfFuelError
    /\ workers["w1"].store = NoStore

\* C12: when the operation's export is not among the module's exports, the
\* caller gets the error NotSupported ("Operation not supported").
C12_MissingExportNotSupported ==
    \A w \in Workers :
        (/\ workers[w].pc = "idle"
         /\ workers[w].plugin \in Plugins
         /\ workers[w].export \notin adapters[workers[w].plugin].exports)
        => workers[w].outcome.err = "NotSupported"

-----------------------------------------------------------------------------
(* Claims about plugin discovery *)

Discovered == vreq.kind = "discover" /\ vres # Pending

\* the subdirectory name of the candidate directory p holds manifest.toml
\* and plugin.wasm, and its manifest parses with non-empty id and name
IsCompletePlugin(p, name) ==
    /\ vreq.disk[p].kind = "dir"
    /\ name \in DOMAIN vreq.disk[p].entries
    /\ LET sub == vreq.disk[p].entries[name]
       IN /\ sub.kind = "dir"
          /\ {ManifestToml, PluginWasm} \subseteq DOMAIN sub.entries
          /\ sub.entries[ManifestToml].kind = "file"
          /\ sub.entries[ManifestToml].content.toml
          /\ {"id", "name", "version"} \subseteq DOMAIN sub.entries[ManifestToml].content
          /\ sub.entries[ManifestToml].content.id # <<>>
          /\ sub.entries[ManifestToml].content.name # <<>>

\* the candidate directories: the search paths, the first only with HOME set
CandidateDirs ==
    {p \in DOMAIN vreq.disk : home # NoHome \/ p # plugin_search_paths(HomeDir)[1]}

CompletePlugins == {pn \in CandidateDirs \X Names : IsCompletePlugin(pn[1], pn[2])}

\* C13: discover_plugins returns exactly the subdirectories of the candidate
\* directories that hold both manifest.toml and plugin.wasm and whose
\* manifest parses with a non-empty id and a non-empty name, each once and
\* with its manifest; incomplete or bad subdirectories are skipped and the
\* scan goes on.
C13_DiscoverExactlyComplete ==
    Discovered =>
        /\ {vres.val[i].dir : i \in DOMAIN vres.val}
              = {PathJoin(pn[1], pn[2]) : pn \in CompletePlugins}
        /\ Len(vres.val) = Cardinality(CompletePlugins)
        /\ \A i \in DOMAIN vres.val : \E pn \in CompletePlugins :
              /\ vres.val[i].dir = PathJoin(pn[1], pn[2])
              /\ vres.val[i].manifest = vreq.disk[pn[1]].entries[pn[2]].entries[ManifestToml].content

\* one complete plugin next to one without a module file, and next to one
\* with an empty id: exactly one plugin is found
C13_Witness ==
    /\ Discovered
    /\ \E p \in CandidateDirs :
          /\ IsCompletePlugin(p, <<"a">>)
          /\ <<"b">> \in DOMAIN vreq.disk[p].entries
          /\ vreq.disk[p].entries[<<"b">>].kind = "dir"
          /\ DOMAIN vreq.disk[p].entries[<<"b">>].entries = {ManifestToml}
          /\ vreq.disk[p].entries[<<"b">>].entries[ManifestToml].kind = "file"
    /\ Len(vres.val) = 1

-----------------------------------------------------------------------------
(* Claims about the memory bridge *)

\* C14: for every 32-bit offset and length, decoding the fat pointer built
\* as (offset << 32) | length in a signed 64-bit value gives back (offset,
\* length), also for offsets of 2^31 and more, where the value is negative.
C14_FatPtrRoundTrip ==
    (vreq.kind = "fat" /\ vres # Pending) => vres.val = <<vreq.ptr, vreq.len>>

\* an offset of 2^31 or more, whose fat pointer is negative, with a length
\* that has its top bit set too
C14_Witness ==
    /\ vreq.kind = "fat"
    /\ vres # Pending
    /\ vreq.ptr[1] >= 32768
    /\ vreq.len[1] >= 32768
    /\ vres.fat.i64[1] >= 32768
    /\ vres.val = <<vreq.ptr, vreq.len>>

\* the number of bytes of the UTF-8 encoding of s
RECURSIVE Utf8Len(_)
Utf8Len(s) ==
    IF s = <<>> THEN 0 ELSE (IF Head(s) = TwoByteChar THEN 2 ELSE 1) + Utf8Len(Tail(s))

\* C15: for every UTF-8 string s, when allocate returns an offset at which
\* len(s) bytes lie inside the memory, write_string(s) returns (offset,
\* len(s)), len(s) counting bytes, and read_string(offset, len(s)) on the
\* same context returns s.
C15_WriteReadRoundTrip ==
    (/\ vreq.kind = "string"
     /\ vres # Pending
     /\ vreq.alloc # AllocTrap
     /\ vreq.alloc + Utf8Len(vreq.s) <= MemSize)
    => /\ vres.ok
       /\ vres.ptr = vreq.alloc
       /\ vres.len = Utf8Len(vreq.s)
       /\ vres.back = Ok(vreq.s)

\* a string with a two-byte character written at the very end of a used
\* memory and read back
C15_Witness ==
    /\ vreq.kind = "string"
    /\ vres # Pending
    /\ vreq.mem = UsedMemory
    /\ Len(vreq.s) = 2
    /\ Utf8Len(vreq.s) = 3
    /\ vreq.alloc + 3 = MemSize
    /\ vres.ok
    /\ vres.back = Ok(vreq.s)

-----------------------------------------------------------------------------
(* Claims about the capability state of an adapter *)

\* C16: the capability state of an adapter (plugin id, permissions, data
\* directory) is what its construction made it, after any sequence of calls
\* and host functions, failed and trapped ones included, and every call in
\* progress works on a store whose state is a copy equal to it.
C16_CapabilityStateFrozen ==
    /\ adapters = [p \in Plugins |-> LoadedAdapter(HomeDir, p)]
    /\ \A w \in Workers :
          workers[w].store # NoStore =>
              workers[w].store.data =
                  HostStateNew(HomeDir, workers[w].plugin,
                               ManifestPermissions(workers[w].plugin))

\* one call was aborted by a trap after its host function had written a
\* file, while a second call into the same plugin is running
C16_Witness ==
    /\ workers["w1"].pc = "idle"
    /\ workers["w1"].outcome = PluginError("failed_trap")
    /\ workers["w1"].plugin = PluginP
    /\ fsys # InitialFiles(home)
    /\ workers["w2"].pc = "guest"
    /\ workers["w2"].plugin = PluginP
    /\ workers["w2"].store.data = adapters[PluginP].host_state

-----------------------------------------------------------------------------
(* Claims about the bootstrap of a plugin *)

\* C17: every export call, the bootstrap calls of load included, runs in an
\* execution context of its own: adapter_init, adapter_info and
\* adapter_capabilities each start with the full budget and a fresh memory,
\* and no context serves more than one export call.
C17_FreshContextPerBootstrapCall ==
    LET calls == workers[Loader].calls
    IN /\ Len(calls) <= 1
       /\ \A i \in 1..Len(calls) :
             calls[i].fuel = FUEL_LIMIT /\ calls[i].mem = InitialMemory

\* C19: whatever goes wrong with the optional adapter_capabilities export
\* during load (it is absent, its call traps or runs out of budget, it
\* returns the null pointer or no valid JSON), the load succeeds with the
\* capabilities of the manifest.
C19_CapabilitiesFailureFallsBack ==
    LET rec == workers[Loader]
    IN (/\ rec.pc = "done"
        /\ rec.plugin_info # None
        /\ rec.cap_json = None \/ ~rec.cap_json.val.ok)
       => /\ rec.outcome.ok
          /\ rec.outcome.val.capabilities = rec.manifest.val.capabilities

\* the identity fields of a loaded adapter, in the order of InfoKeys
Reported ==
    LET info == workers[Loader].outcome.val.info
    IN <<info.id, info.name, info.version, info.description>>

\* C20: after a successful load, each of id, name, version and description
\* of the adapter is the string the adapter_info result gives for that
\* field when it gives one, and the manifest's value when the field is
\* absent (or null), whatever holds of the other fields.
C20_IdentityFieldsOverride ==
    LET rec == workers[Loader]
    IN (rec.pc = "done" /\ rec.outcome.ok) =>
          /\ \A c \in [1..4 -> {"absent", "null", "string"}] :
                rec.info_json = Some(InfoText(c)) =>
                    \A i \in 1..4 :
                        Reported[i] = IF c[i] = "string" THEN GuestValues[i]
                                      ELSE ManifestValues[i]
          /\ rec.info_json \notin
                {Some(InfoText(c)) : c \in [1..4 -> {"absent", "null", "string"}]}
             => Reported = <<ManifestValues[1], <<>>, ManifestValues[3], ManifestValues[4]>>

\* a load that took the name and the description from adapter_info and the
\* id and the version from the manifest, the id being null in the result
C20_Witness ==
    LET rec == workers[Loader]
    IN /\ rec.pc = "done"
       /\ rec.outcome.ok
       /\ rec.info_json =
             Some(InfoText([i \in 1..4 |-> <<"null", "string", "absent", "string">>[i]]))
       /\ Reported = <<ManifestValues[1], GuestValues[2], ManifestValues[3], GuestValues[4]>>

-----------------------------------------------------------------------------
(* Claims about the aggregate operations of the adapter manager *)

\* what the calls that succeeded gave, in the order of the calls
RECURSIVE Successful(_)
Successful(called) ==
    IF called = <<>> THEN <<>>
    ELSE (IF Head(called).res.ok THEN Head(called).res.val ELSE <<>>)
         \o Successful(Tail(called))

\* the adapters an aggregate has to ask: registered, enabled and, for a
\* search, able to search and among the sources when sources are given
HasToAsk(id) ==
    /\ id \in vreq.registered
    /\ id \notin vreq.disabled
    /\ vreq.op = "search" =>
          /\ vreq.can_search[id]
          /\ vreq.sources # <<>> => \E i \in 1..Len(vreq.sources) : vreq.sources[i] = id

\* C18: search, list_installed and list_updates of the manager return Ok
\* whatever the calls into the adapters gave; every adapter that had to be
\* asked was asked, a failed call adds nothing, and the result is exactly
\* what the successful calls gave, in the order of the calls.
C18_AggregateAbsorbsFailures ==
    (vreq.kind = "aggregate" /\ vres # Pending /\ vres.pc = "done") =>
        /\ vres.ok
        /\ vres.results = Successful(vres.called)
        /\ {vres.called[i].id : i \in 1..Len(vres.called)}
              = {id \in AdapterIds \cup {UnknownId} : HasToAsk(id)}
        /\ vreq.sources = <<>> =>
              \A i, j \in 1..Len(vres.called) :
                  vres.called[i].id = vres.called[j].id => i = j

\* the first adapter gave a package, the second failed: the list is the
\* package of the first
C18_Witness ==
    /\ vreq.kind = "aggregate"
    /\ vres # Pending
    /\ vres.pc = "done"
    /\ vreq.op = "list_installed"
    /\ Len(vres.called) = 2
    /\ vres.called[1].res.ok
    /\ Len(vres.called[1].res.val) = 1
    /\ ~vres.called[2].res.ok
    /\ vres.results = vres.called[1].res.val

-----------------------------------------------------------------------------
(* Claims about reading guest memory *)

\* the unsigned value of the i32 offset plus that of the i32 length is more
\* than the memory holds: a negative i32 is at least 2^31 as a u32
ExceedsMemory(ptr, len) ==
    ptr < 0 \/ len < 0 \/ ptr > MemSize \/ len > MemSize \/ ptr + len > MemSize

\* the bytes are the UTF-8 encoding of some text
ValidUtf8(bytes) ==
    /\ \A i \in 1..Len(bytes) : bytes[i] # BadByte
    /\ \A i \in 1..Len(bytes) :
          bytes[i] = LeadByte => (i < Len(bytes) /\ bytes[i + 1] = ContByte)
    /\ \A i \in 1..Len(bytes) :
          bytes[i] = ContByte => (i > 1 /\ bytes[i - 1] = LeadByte)

\* C21: for every offset and length the guest supplies as i32, negative
\* ones reinterpreted as unsigned, read_string returns the bounds error
\* exactly when offset + length, added without wraparound, exceeds the
\* memory size; within bounds it fails only when the bytes of the range are
\* no valid UTF-8, and what it returns encodes to exactly those bytes.
C21_ReadBoundsExact ==
    (vreq.kind = "read" /\ vres # Pending) =>
        LET bytes == SubSeq(vreq.mem, vreq.ptr + 1, vreq.ptr + vreq.len)
        IN IF ExceedsMemory(vreq.ptr, vreq.len)
           THEN ~vres.ok /\ vres.err = "bounds"
           ELSE /\ vres.ok <=> ValidUtf8(bytes)
                /\ ~vres.ok => vres.err = "utf8"
                /\ vres.ok => as_bytes(vres.val) = bytes

\* the offset -1 (2^32 - 1 as unsigned) with length 2, whose 32-bit sum
\* wraps around to 1, is out of bounds
C21_Witness ==
    /\ vreq.kind = "read"
    /\ vres # Pending
    /\ vreq.ptr = -1
    /\ vreq.len = 2
    /\ ~vres.ok
    /\ vres.err = "bounds"

\* the JSON texts that deserialize into the result type of the export
ParsesAs(export, text) ==
    text = JsonEmptyList \/ (export = OpSync /\ text = JsonNull)

\* C22: read_result_json fails with the "returned nothing" error exactly
\* when the fat pointer decodes to offset 0 and length 0; for every other
\* fat pointer it reads the bytes addressed and parses them, and a text that
\* does not parse gives an error that is neither the "returned nothing" nor
\* the bounds error.
C22_NullPointerExact ==
    (vreq.kind = "result" /\ vres # Pending) =>
        LET null == vreq.ptr = <<0, 0>> /\ vreq.len = <<0, 0>>
            inside == /\ vreq.ptr[1] = 0
                      /\ vreq.len[1] = 0
                      /\ vreq.ptr[2] + vreq.len[2] <= MemSize
            bytes == SubSeq(vreq.mem, vreq.ptr[2] + 1, vreq.ptr[2] + vreq.len[2])
        IN /\ (~vres.ok /\ vres.err = "null_pointer") <=> null
           /\ (~null /\ ~inside) => (~vres.ok /\ vres.err = "bounds")
           /\ (~null /\ inside /\ ~ValidUtf8(bytes)) => (~vres.ok /\ vres.err = "utf8")
           /\ (~null /\ inside /\ ValidUtf8(bytes)) =>
                 IF ParsesAs(vreq.export, bytes) THEN vres = Ok(bytes)
                 ELSE ~vres.ok /\ vres.err = "json"

\* offset 0 with a length, and an offset with length 0, are no null
\* pointers: the first is read and parsed, the second is an empty text that
\* fails to parse
C22_Witness ==
    /\ vreq.kind = "result"
    /\ vres # Pending
    /\ \/ vreq.ptr = <<0, 0>> /\ vreq.len = <<0, 2>> /\ vres = Ok(JsonEmptyList)
       \/ vreq.ptr = <<0, 2>> /\ vreq.len = <<0, 0>> /\ ~vres.ok /\ vres.err = "json"

-----------------------------------------------------------------------------
(* Claims about what a host function does to the guest *)

\* C23 as the specification states it: between the call of a host import
\* and its return, the host invokes no export of the guest.
C23_NoExportInvoked ==
    \A w \in Workers : hostcall[w].fn # "none" => hostcall[w].invoked = <<>>

\* C23: between the call of a host import and its return the host invokes
\* no export of the guest but allocate, which host_exec, host_fs_read and
\* host_http_get call at most once, to place their response; host_log,
\* host_fs_write, host_fs_exists and host_report_progress invoke none.
C23_OnlyAllocateInvoked ==
    \A w \in Workers :
        hostcall[w].fn # "none" =>
            /\ hostcall[w].invoked \in {<<>>, <<"allocate">>}
            /\ hostcall[w].invoked # <<>> =>
                  /\ hostcall[w].fn \in {"host_exec", "host_fs_read", "host_http_get"}
                  /\ "allocate" \in adapters[workers[w].plugin].exports
            /\ hostcall[w].ret \notin {NullFat, I32(0), I32(-1), I32(1), Unit}
                  => hostcall[w].invoked = <<"allocate">>

\* host_fs_read has read a file and called the guest's allocate for the
\* region of its response
C23_Witness ==
    /\ hostcall["w1"].fn = "host_fs_read"
    /\ hostcall["w1"].invoked = <<"allocate">>
    /\ hostcall["w1"].ret # NullFat

-----------------------------------------------------------------------------
(* Claims about the thread guest code runs on *)

\* C24: every call into guest code, during load (adapter_init, adapter_info,
\* adapter_capabilities) or operational, executes on a thread of the blocking
\* pool and never on the thread that requested it
C24_GuestOnBlockingPool ==
    \A w \in DOMAIN workers :
        workers[w].pc = "guest" =>
            /\ workers[w].thread = BlockingThread
            /\ workers[w].thread # RequestThread

\* C25: when the host has consumed the buffer an export returned (the JSON
\* result read by read_result_json), it has invoked the guest's deallocate
\* export with that buffer's offset and length by the time the call ends
C25_DeallocateAfterConsume ==
    \A w \in DOMAIN workers :
        workers[w].pc = "idle" /\ workers[w].consumed # <<>> =>
            \E i \in DOMAIN workers[w].invoked :
                /\ workers[w].invoked[i].export = "deallocate"
                /\ workers[w].invoked[i].args = workers[w].consumed

-----------------------------------------------------------------------------
(* Claims about the status of host_fs_write *)

\* what the call's arguments say: the path and the data as the host can read
\* them, and the path as validate_path resolves it for the calling plugin
FsWritePathStr ==
    IF "memory" \in vreq.exports
    THEN read_string(FsWriteMemory(vreq), U32(vreq.ptr), U32(Len(vreq.path)))
    ELSE Err("memory", <<>>)
FsWriteDataStr == read_string(FsWriteMemory(vreq), U32(DataOff), U32(Len(vreq.data)))
FsWriteValidated ==
    IF FsWritePathStr.ok
    THEN validate_path(home, adapters[vreq.plugin].host_state, FsWritePathStr.val)
    ELSE FsWritePathStr
FsWriteAccepted == FsWritePathStr.ok /\ FsWriteDataStr.ok /\ FsWriteValidated.ok

\* the file at path holds data and every ancestor of it is a directory
WrittenTo(files, path, data) ==
    LET key == FsKey(path)
    IN /\ key \in DOMAIN files
       /\ files[key] = data
       /\ \A k \in Ancestors(key) : k \in DOMAIN files /\ files[k] = DirNode

\* C26: host_fs_write returns 0 exactly when the data bytes have been written
\* to the validated path, missing parent directories created, and -1 in every
\* other case; when the path or the data cannot be read or the path is
\* denied, no directory has been created and no file written
C26_FsWriteStatus ==
    [][/\ vres'.ret \in {I32(0), I32(-1)}
       /\ vres'.ret = I32(0) <=>
             /\ FsWriteAccepted
             /\ WrittenTo(fsys', FsWriteValidated.val, FsWriteDataStr.val)
       /\ vres'.ret = I32(0) =>
             \A k \in DOMAIN fsys :
                k # FsKey(FsWriteValidated.val) => k \in DOMAIN fsys' /\ fsys'[k] = fsys[k]
       /\ ~FsWriteAccepted => vres'.ret = I32(-1) /\ fsys' = fsys]_vars

\* host_fs_write has returned 0 for a file in a directory that did not exist:
\* the directory and the file are there
C26_Witness ==
    /\ vreq.kind = "fs_write"
    /\ vreq.path = PathSubB
    /\ FsWriteAccepted
    /\ vres = [ret |-> I32(0),
               effects |-> <<Effect("mkdir", PathParent(FsWriteValidated.val)),
                             Effect("write", FsWriteValidated.val)>>]
    /\ WrittenTo(fsys, PathJoin(data_dir_for(home, vreq.plugin), PathSubB), vreq.data)

-----------------------------------------------------------------------------
(* Claims about the program host_exec runs *)

\* the command of the request host_exec read for worker w
RequestedCommand(w) == ParseExecRequest(hostcall[w].arg.val).val.command

\* C27: the program host_exec spawns is the executable the search path
\* resolves for the basename of the requested command, never the path string
\* the guest supplied
C27_SpawnsResolvedBasename ==
    \A w \in DOMAIN workers :
        hostcall[w].fn = "host_exec" =>
            \A i \in DOMAIN hostcall[w].effects :
                hostcall[w].effects[i].op = "spawn" =>
                    LET command == RequestedCommand(w)
                        target == hostcall[w].effects[i].target
                    IN /\ Basename(command) \in onPath
                       /\ target = Which(onPath, Basename(command)).val
                       /\ PathParent(target) = BinDir
                       /\ PathParent(command) # BinDir => target # command

\* host_exec was asked for /tmp/x/f by a plugin allowed to run f: it has
\* spawned the f of the search path with the arguments of the request
C27_Witness ==
    /\ hostcall["w1"].fn = "host_exec"
    /\ hostcall["w1"].arg = Ok(ReqTmpF)
    /\ hostcall["w1"].effects =
          <<[op |-> "spawn", target |-> PathJoin(BinDir, CmdF), args |-> << <<"a">> >>]>>

-----------------------------------------------------------------------------
(* Claims about the identity of a loaded plugin *)

\* load() has returned an adapter
Loaded == workers[Loader].pc = "done" /\ workers[Loader].outcome.ok

\* C28: the plugin id used for enforcement, which is the id of the capability
\* state and the id its data directory is computed from, is the manifest's id
\* and equals the id the adapter reports through info(), also when
\* adapter_info returns an id of its own
C28_EnforcementIdIsInfoId ==
    Loaded =>
        LET adapter == workers[Loader].outcome.val
            manifest == workers[Loader].manifest.val
        IN /\ adapter.host_state.adapter_id = manifest.id
           /\ adapter.host_state.data_dir = data_dir_for(home, manifest.id)
           /\ adapter.info.id = adapter.host_state.adapter_id

\* C28, amended: the id used for enforcement is the manifest's id; info()
\* reports the id adapter_info returned, and the manifest's id when it
\* returned none, so the two are equal exactly when adapter_info gives no id
\* or the manifest's
C28_EnforcementIdIsManifestId ==
    Loaded =>
        LET adapter == workers[Loader].outcome.val
            manifest == workers[Loader].manifest.val
            given == workers[Loader].plugin_info.val.id
        IN /\ adapter.host_state.adapter_id = manifest.id
           /\ adapter.host_state.data_dir = data_dir_for(home, manifest.id)
           /\ adapter.info.id = IF given.some THEN given.val ELSE manifest.id
           /\ adapter.info.id = adapter.host_state.adapter_id
                 <=> (~given.some \/ given.val = manifest.id)

\* adapter_info returned the id I for the plugin whose manifest says p: the
\* adapter reports I and is confined as p
C28_Witness ==
    /\ Loaded
    /\ workers[Loader].outcome.val.info.id = GuestValues[1]
    /\ workers[Loader].outcome.val.host_state.adapter_id = ManifestValues[1]
    /\ workers[Loader].outcome.val.host_state.data_dir
          = data_dir_for(home, ManifestValues[1])

-----------------------------------------------------------------------------
(* Claims about the place of the data directories *)

\* the fixed plugin-data root
PluginDataRoot ==
    IF home # NoHome THEN PathJoin(home, PluginDataRel) ELSE PluginDataTmp

\* the directory that path names contains the one that inner names, or is it
Contains(path, inner) ==
    LET k == FsKey(path)
        ki == FsKey(inner)
    IN Len(k) <= Len(ki) /\ SubSeq(ki, 1, Len(k)) = k

\* C29: for every manifest id that load_manifest accepts the data directory
\* is a proper subdirectory of the plugin-data root, the data directories of
\* two plugins with distinct ids do not contain one another, and a plugin
\* with no filesystem permissions is granted no path outside the root or
\* inside the data directory of the other plugin
C29_DataDirsApart ==
    (vreq.kind = "data_dir" /\ vres # Pending) =>
        LET dir(i) == vres.states[i].val.data_dir
        IN /\ \A i \in 1..2 :
                 vres.states[i].some =>
                     /\ Contains(PluginDataRoot, dir(i))
                     /\ ~Contains(dir(i), PluginDataRoot)
           /\ (vres.states[1].some /\ vres.states[2].some
                  /\ vreq.ids[1] # vreq.ids[2]) =>
                 ~Contains(dir(1), dir(2)) /\ ~Contains(dir(2), dir(1))
           /\ vres.granted.ok =>
                 /\ Contains(PluginDataRoot, vres.granted.val)
                 /\ (vres.states[2].some /\ vreq.ids[1] # vreq.ids[2]) =>
                       ~Contains(dir(2), vres.granted.val)

-----------------------------------------------------------------------------
(* Claims about the result of the host functions that return a buffer *)

\* the call of a host function that returns a buffer has returned
HostFnReturned == vreq.kind \in BufferFns /\ vres # Pending

\* the operation itself went through: the process ran, the file was read,
\* the GET was answered
OperationSucceeded ==
    /\ vres.effects # <<>>
    /\ vreq.outcome.ok
    /\ vreq.kind = "host_fs_read" => FsRead(fsys, vres.effects[1].target).ok

\* the response was written: the guest's memory holds, at the offset that
\* allocate gave, an object that was not there before
ResponseWritten ==
    /\ vres.mem # RequestMemory(vreq)
    /\ vreq.alloc # AllocTrap
    /\ vreq.alloc < MemSize
    /\ vres.mem[vreq.alloc + 1] = "{"

\* C30: host_exec, host_fs_read and host_http_get return 0 if and only if
\* the operation failed: when it succeeded and the response was written the
\* fat pointer is not zero, its length half being at least 1 and its region
\* holding the response, also when allocate gave the offset 0
C30_ZeroIffFailed ==
    HostFnReturned =>
        LET ptr == decode_fat_ptr(vres.ret)[1]
            len == decode_fat_ptr(vres.ret)[2]
        IN /\ vres.ret = NullFat <=> ~(OperationSucceeded /\ ResponseWritten)
           /\ vres.ret # NullFat =>
                 /\ FromU32(len) >= 1
                 /\ ptr = U32(vreq.alloc)
                 /\ read_string(vres.mem, ptr, len).ok
                 /\ Head(read_string(vres.mem, ptr, len).val) = "{"

\* allocate gave the offset 0 to a host_exec whose process ran: the fat
\* pointer has a zero offset half and is not zero
C30_Witness ==
    /\ HostFnReturned
    /\ vreq.kind = "host_exec"
    /\ vreq.alloc = 0
    /\ OperationSucceeded
    /\ vres.ret # NullFat
    /\ decode_fat_ptr(vres.ret)[1] = U32(0)

=============================================================================
